---- MODULE Spec2Model ----
(***************************************************************************)
(* ts2rust: derive closure (optimizeDerives), ownership analysis           *)
(* (analyzeFunction) and builtin method dispatch (generateMethodCall),     *)
(* modelled from the TypeScript sources.                                   *)
(***************************************************************************)
EXTENDS Integers, Sequences, FiniteSets, TLC

VARIABLES
    declarations,       \* program.declarations (derive lists are mutated in place)
    copyTypes,          \* optimizeDerives: const copyTypes = new Set<string>()
    changed,            \* optimizeDerives: let changed
    iteration,          \* optimizeDerives: let iteration
    idx,                \* position of the for-of loop over program.declarations
    pc,                 \* control point
    run,                \* how many times optimizeDerives has been started
    firstDeclarations,  \* program.declarations as the first run left them
    firstCopyTypes,     \* copyTypes as the first run left it
    diagnostics,        \* what optimizeDerives reports to its caller
    func,               \* analyzeFunction: the IRFunction under analysis
    stmtPos,            \* collectVariables: position in func.body
    variables,          \* analyzeFunction: Map<string, VariableUsage>
    needsCloneSet,      \* analyzeFunction: needsCloneSet
    canBorrow,          \* analyzeFunction: canBorrow
    suggestions,        \* what suggestOptimizations returned for the analysis
    apc,                \* control point of analyzeFunction
    expr,               \* generateMethodCall: the method_call expression
    handler,            \* generateMethodCall: the rule used to emit the call
    resolved,           \* result of resolveMethodByType / resolveMethodByName
    dpc,                \* which dispatch operation has run
    irProgram,          \* resolveTypes: the program (its function bodies are annotated in place)
    typeEnv,            \* resolveTypes: const env = new TypeEnvironment()
    funcEnv,            \* resolveFunction: const env = parentEnv.child()
    funcPos,            \* resolveTypes: position of the loop over program.functions
    bodyPos,            \* resolveFunction: position of the loop over func.body
    rpc,                \* control point of resolveTypes
    genFunc,            \* generateFunction: the IRFunction being emitted
    emitted,            \* the lines generateStatement returned for each body statement
    output,             \* generateFunction: const lines
    genPos,             \* generateFunction: position of the loop over func.body
    gpc,                \* control point of generateFunction
    sections,           \* generate: const sections
    sectionLoop,        \* generate: which of the five loops over program.declarations runs
    sectionIdx,         \* generate: position of that loop
    epc,                \* control point of generate after optimizeDerives
    setHeap,            \* the Set and Map objects of the type registries, by identity
    globalTypeRegistry, \* parser: export const globalTypeRegistry
    createdRegistries,  \* the registries createTypeRegistry() has returned
    registeredIn,       \* what the units parsed so far registered, per registry
    resets              \* number of resetGlobalRegistry() calls

deriveVars == <<declarations, copyTypes, changed, iteration, idx, pc, run,
                firstDeclarations, firstCopyTypes, diagnostics>>
ownVars == <<func, stmtPos, variables, needsCloneSet, canBorrow, suggestions, apc>>
dispVars == <<expr, handler, resolved, dpc>>
resolveVars == <<irProgram, typeEnv, funcEnv, funcPos, bodyPos, rpc>>
genVars == <<genFunc, emitted, output, genPos, gpc>>
emitVars == <<sections, sectionLoop, sectionIdx, epc>>
registryVars == <<setHeap, globalTypeRegistry, createdRegistries, registeredIn, resets>>
extVars == <<resolveVars, genVars, emitVars, registryVars>>
outsideResolve == <<deriveVars, ownVars, dispVars, genVars, emitVars, registryVars>>
outsideGen == <<deriveVars, ownVars, dispVars, resolveVars, emitVars, registryVars>>
outsideEmit == <<ownVars, dispVars, resolveVars, genVars, registryVars>>
outsideRegistry == <<deriveVars, ownVars, dispVars, resolveVars, genVars, emitVars>>
vars == <<deriveVars, ownVars, dispVars, extVars>>

(***************************************************************************)
(* Bounds of the explored inputs.                                          *)
(***************************************************************************)
MaxFields == 2      \* fields of the first struct of a small program
MaxFieldsB == 1     \* fields of the second struct of a small program
ChainLen == 11      \* longest dependency chain of structs
MaxStmts == 3       \* statements of a function body after its first declaration
MaxBody == 2        \* statements of a function body given to the type resolver
MaxCases == 3       \* clauses of a switch statement
MaxGenBody == 2     \* statements of a function body given to generateFunction
MaxDecls == 4       \* declarations of a program whose sections are emitted
MaxRegistries == 2  \* registries obtained from createTypeRegistry()
MaxResets == 2      \* calls of resetGlobalRegistry()

(***************************************************************************)
(* IR types (src/src/ir/types.ts).  Every type is a record of one shape:   *)
(* elements holds the tuple elements, the array element type or the        *)
(* reference's inner type.                                                 *)
(***************************************************************************)
primitiveType(n) == [kind |-> "primitive", name |-> n, mutable |-> FALSE, elements |-> <<>>]
arrayType(t) == [kind |-> "array", name |-> "", mutable |-> FALSE, elements |-> <<t>>]
structType(n) == [kind |-> "struct", name |-> n, mutable |-> FALSE, elements |-> <<>>]
enumType(n) == [kind |-> "enum", name |-> n, mutable |-> FALSE, elements |-> <<>>]
tupleType(els) == [kind |-> "tuple", name |-> "", mutable |-> FALSE, elements |-> els]
optionalType(t) == [kind |-> "optional", name |-> "", mutable |-> FALSE, elements |-> <<t>>]
referenceType(t, m) == [kind |-> "reference", name |-> "", mutable |-> m, elements |-> <<t>>]
undefined == [kind |-> "undefined", name |-> "", mutable |-> FALSE, elements |-> <<>>]

Includes(seq, x) == \E i \in 1..Len(seq) : seq[i] = x

(***************************************************************************)
(* Declarations (IRStruct, IREnum, IRTypeAlias, IRFunction, IRImpl), each  *)
(* a record of one shape: fields holds a struct's fields or a function's   *)
(* params, type a type alias's target or a function's returnType, name an  *)
(* impl block's typeName.                                                  *)
(***************************************************************************)
structField(n, t) == [name |-> n, type |-> t]
structDerives == <<"Debug", "Clone">>
enumDerives == <<"Debug", "Clone", "PartialEq">>
parseEnumDerives == <<"Debug", "Clone", "Copy", "PartialEq", "Eq">>

declaration(k, n, fs, vs, ds) ==
    [kind |-> k, name |-> n, fields |-> fs, variants |-> vs, derives |-> ds,
     type |-> undefined, methods |-> <<>>, body |-> <<>>]

structDecl(n, fs) == declaration("struct", n, fs, <<>>, structDerives)
enumDecl(n, vs, ds) == declaration("enum", n, <<>>, vs, ds)
typeAliasDecl(n, type) == [declaration("type_alias", n, <<>>, <<>>, <<>>) EXCEPT !.type = type]
param(n, type) == [name |-> n, type |-> type]
functionDecl(n, params, returnType, body) ==
    [declaration("function", n, params, <<>>, <<>>) EXCEPT !.type = returnType, !.body = body]
implMethod(n, params, returnType, body) ==
    [name |-> n, params |-> params, returnType |-> returnType, body |-> body]
implBlock(typeName, methods) ==
    [declaration("impl", typeName, <<>>, <<>>, <<>>) EXCEPT !.methods = methods]
enumVariantUnit(n) == [kind |-> "unit", name |-> n]
enumVariantTuple(n) == [kind |-> "tuple", name |-> n]

(***************************************************************************)
(* optimizeDerives: the helper isFieldTypeCopy, closed over copyTypes.     *)
(***************************************************************************)
\* variant: a field of struct type is taken for duplicable without a lookup
RECURSIVE isFieldTypeCopyStructAlways(_, _)
isFieldTypeCopyStructAlways(type, copy) ==
    IF type.kind = "primitive" THEN type.name # "String"
    ELSE IF type.kind = "tuple"
        THEN \A i \in 1..Len(type.elements) :
                isFieldTypeCopyStructAlways(type.elements[i], copy)
    ELSE IF type.kind = "reference" THEN TRUE
    ELSE IF type.kind = "enum" THEN type.name \in copy
    ELSE IF type.kind = "struct" THEN TRUE
    ELSE FALSE

\* variant: every primitive is taken for duplicable
RECURSIVE isFieldTypeCopyAnyPrimitive(_, _)
isFieldTypeCopyAnyPrimitive(type, copy) ==
    IF type.kind = "primitive" THEN TRUE
    ELSE IF type.kind = "tuple"
        THEN \A i \in 1..Len(type.elements) :
                isFieldTypeCopyAnyPrimitive(type.elements[i], copy)
    ELSE IF type.kind = "reference" THEN TRUE
    ELSE IF type.kind = "enum" \/ type.kind = "struct" THEN type.name \in copy
    ELSE FALSE

RECURSIVE isFieldTypeCopy(_, _)
isFieldTypeCopy(type, copy) ==
    IF type.kind = "primitive" THEN type.name # "String"
    ELSE IF type.kind = "tuple"
        THEN \A i \in 1..Len(type.elements) : isFieldTypeCopy(type.elements[i], copy)
    ELSE IF type.kind = "reference" THEN TRUE
    ELSE IF type.kind = "enum" \/ type.kind = "struct" THEN type.name \in copy
    ELSE FALSE

allCopy(struct, copy) ==
    \A i \in 1..Len(struct.fields) : isFieldTypeCopy(struct.fields[i].type, copy)

maxIterations == 10

\* variant: the push is not guarded by derives.includes('Copy')
pushCopyUnguarded(derives) == Append(derives, "Copy")

\* variant: 'Copy' is put in front of the list
pushCopyFront(derives) ==
    IF ~Includes(derives, "Copy") THEN <<"Copy">> \o derives ELSE derives

pushCopy(derives) ==
    IF ~Includes(derives, "Copy") THEN Append(derives, "Copy") ELSE derives

seedCopyTypes(decls) ==
    {decls[i].name : i \in {j \in 1..Len(decls) :
        decls[j].kind = "enum" /\ Includes(decls[j].derives, "Copy")}}


(***************************************************************************)
(* IR expressions and statements (src/src/ir/expressions.ts,               *)
(* statements.ts), each a record of one shape.  args holds the             *)
(* subexpressions in the order the walk visits them; exprs and blocks hold *)
(* a statement's expressions and statement lists;                          *)
(* name is the node's own name (identifier name, operator, callee, method, *)
(* property, struct name, variant); type is a literal's type, an array     *)
(* literal's elementType or a cast's targetType; namespace, enumName,      *)
(* resolvedType and objectType are the fields of the kinds that have them. *)
(***************************************************************************)
node(k, n, as) ==
    [kind |-> k, name |-> n, args |-> as, namespace |-> "", enumName |-> "",
     type |-> undefined, resolvedType |-> undefined, objectType |-> undefined]

literal == [node("literal", "", <<>>) EXCEPT !.type = primitiveType("i32")]
identifier(n) == node("identifier", n, <<>>)
binaryOp(op, l, r) == node("binary", op, <<l, r>>)
call(callee, as) == node("call", callee, as)
\* args = <<object>> \o the call's arguments
methodCall(obj, m, as, namespace) ==
    [node("method_call", m, <<obj>> \o as) EXCEPT !.namespace = namespace]
index(obj, i) == node("index", "", <<obj, i>>)
propertyAccess(obj, p) == node("property", p, <<obj>>)
enumVariant(e, v, data) == [node("enum_variant", v, data) EXCEPT !.enumName = e]
unaryOp(op, operand) == node("unary", op, <<operand>>)
arrayLiteral(els, elementType) == [node("array_literal", "", els) EXCEPT !.type = elementType]
\* fields holds the field values in source order
structLiteral(structName, fields) == node("struct_literal", structName, fields)
tupleLiteral(els) == node("tuple_literal", "", els)
ternary(c, t, e) == node("ternary", "", <<c, t, e>>)
cast(e, targetType) == [node("cast", "", <<e>>) EXCEPT !.type = targetType]

noType == primitiveType("void")

statement(k, n, t, es, bs) ==
    [kind |-> k, name |-> n, type |-> t, exprs |-> es, blocks |-> bs, fallthrough |-> <<>>]

variableDecl(n, t, init) == statement("variable", n, t, <<init>>, <<>>)
assignment(target, value) == statement("assignment", "", noType, <<target, value>>, <<>>)
returnStmt(value) == statement("return", "", noType, <<value>>, <<>>)
\* an else branch that is present is not empty
ifStmt(c, thenBranch, elseBranch) == statement("if", "", noType, <<c>>, <<thenBranch, elseBranch>>)
whileStmt(c, body) == statement("while", "", noType, <<c>>, <<body>>)
forInStmt(v, iterable, body) == statement("for_in", v, noType, <<iterable>>, <<body>>)
\* a default case has the value noValue
noValue == node("none", "", <<>>)
switchCase(value, body, fallthrough) == [value |-> value, body |-> body, fallthrough |-> fallthrough]
\* exprs = <<discriminant, value of case 1, ...>>, blocks = <<body of case 1, ...>>,
\* fallthrough = <<flag of case 1, ...>>
switchStmt(d, cases) ==
    [statement("switch", "", noType,
               <<d>> \o [i \in 1..Len(cases) |-> cases[i].value],
               [i \in 1..Len(cases) |-> cases[i].body])
     EXCEPT !.fallthrough = [i \in 1..Len(cases) |-> cases[i].fallthrough]]
expressionStmt(e) == statement("expression", "", noType, <<e>>, <<>>)
block(stmts) == statement("block", "", noType, <<>>, <<stmts>>)
breakStmt == statement("break", "", noType, <<>>, <<>>)
continueStmt == statement("continue", "", noType, <<>>, <<>>)

(***************************************************************************)
(* isCopyType and needsClone (src/src/ir/types.ts).                        *)
(***************************************************************************)
RECURSIVE isCopyType(_, _)
isCopyType(type, knownCopyEnums) ==
    IF type.kind = "primitive" THEN type.name # "String"
    ELSE IF type.kind = "tuple"
        THEN \A i \in 1..Len(type.elements) : isCopyType(type.elements[i], knownCopyEnums)
    ELSE IF type.kind = "reference" THEN ~type.mutable
    ELSE IF type.kind = "enum" THEN type.name \in knownCopyEnums
    ELSE FALSE

needsClone(type, knownCopyEnums) == ~isCopyType(type, knownCopyEnums)

(***************************************************************************)
(* The usage walk of src/src/analysis/ownership.ts.  The Map of            *)
(* VariableUsage is a function from the declared names to their usage.     *)
(***************************************************************************)
MapSet(m, k, v) == [n \in DOMAIN m \cup {k} |-> IF n = k THEN v ELSE m[n]]

RECURSIVE collectFromExpression(_, _, _)
RECURSIVE collectArgs(_, _, _)
collectFromExpression(e, usages, isWrite) ==
    IF e.kind = "identifier"
    THEN IF e.name \in DOMAIN usages
         THEN IF isWrite
              THEN [usages EXCEPT ![e.name].writes = @ + 1]
              ELSE [usages EXCEPT ![e.name].reads = @ + 1]
         ELSE usages
    ELSE IF e.kind \in {"binary", "unary", "call", "method_call", "index", "property",
                        "array_literal", "struct_literal", "tuple_literal", "ternary", "cast"}
    THEN collectArgs(e.args, 1, usages)
    ELSE usages

\* the subexpressions are visited in order, each without the isWrite flag
collectArgs(as, i, usages) ==
    IF i > Len(as) THEN usages
    ELSE collectArgs(as, i + 1, collectFromExpression(as[i], usages, FALSE))

RECURSIVE collectFromStatement(_, _)
RECURSIVE collectVariables(_, _, _)
RECURSIVE collectCases(_, _, _)
collectFromStatement(stmt, usages) ==
    IF stmt.kind = "variable"
    THEN collectFromExpression(stmt.exprs[1],
            MapSet(usages, stmt.name, [type |-> stmt.type, reads |-> 0, writes |-> 1]),
            FALSE)
    ELSE IF stmt.kind = "assignment"
    THEN collectFromExpression(stmt.exprs[2],
            collectFromExpression(stmt.exprs[1], usages, TRUE), FALSE)
    ELSE IF stmt.kind = "return"
    THEN IF stmt.exprs[1].kind # "none"
         THEN collectFromExpression(stmt.exprs[1], usages, FALSE)
         ELSE usages
    ELSE IF stmt.kind = "if"
    THEN collectVariables(stmt.blocks[2], 1,
            collectVariables(stmt.blocks[1], 1,
                collectFromExpression(stmt.exprs[1], usages, FALSE)))
    ELSE IF stmt.kind \in {"while", "for_in"}
    THEN collectVariables(stmt.blocks[1], 1,
            collectFromExpression(stmt.exprs[1], usages, FALSE))
    ELSE IF stmt.kind = "switch"
    THEN collectCases(stmt, 1, collectFromExpression(stmt.exprs[1], usages, FALSE))
    ELSE IF stmt.kind = "expression"
    THEN collectFromExpression(stmt.exprs[1], usages, FALSE)
    ELSE IF stmt.kind = "block"
    THEN collectVariables(stmt.blocks[1], 1, usages)
    ELSE usages

collectVariables(statements, i, usages) ==
    IF i > Len(statements) THEN usages
    ELSE collectVariables(statements, i + 1, collectFromStatement(statements[i], usages))

collectCases(stmt, c, usages) ==
    IF c > Len(stmt.blocks) THEN usages
    ELSE collectCases(stmt, c + 1,
            collectVariables(stmt.blocks[c], 1,
                IF stmt.exprs[c + 1].kind # "none"
                THEN collectFromExpression(stmt.exprs[c + 1], usages, FALSE)
                ELSE usages))

\* variant: a variable read at least once and written once may be borrowed
canBorrowOfAtLeastOnce(usages) ==
    {n \in DOMAIN usages : usages[n].reads >= 1 /\ usages[n].writes = 1}

\* analyzeFunction, lines 72-85
needsCloneOf(usages) ==
    {n \in DOMAIN usages : needsClone(usages[n].type, {}) /\ usages[n].reads > 1}

canBorrowOf(usages) ==
    {n \in DOMAIN usages : usages[n].reads = 1 /\ usages[n].writes = 1}

\* suggestOptimizations, lines 276-300: the suggestions as type and variable
suggestion(type, variable) == [type |-> type, variable |-> variable]

suggestOptimizations(usages, analysisNeedsClone) ==
    {suggestion("remove_clone", n) :
        n \in {m \in DOMAIN usages : m \in analysisNeedsClone /\ usages[m].reads = 1}}
    \cup {suggestion("add_borrow", n) :
        n \in {m \in DOMAIN usages :
                usages[m].writes = 1 /\ usages[m].reads > 0 /\ ~isCopyType(usages[m].type, {})}}

(***************************************************************************)
(* Input programs.                                                         *)
(***************************************************************************)
FieldName == <<"f1", "f2", "f3", "f4">>
FieldTypes ==
    { primitiveType("i32"), primitiveType("String"),
      arrayType(primitiveType("i32")),
      referenceType(primitiveType("i32"), FALSE),
      referenceType(primitiveType("i32"), TRUE),
      structType("A"), structType("B"), enumType("E"),
      tupleType(<<primitiveType("i32"), enumType("E")>>) }

\* the second struct of a small program draws from fewer types
FieldTypesB ==
    { primitiveType("i32"), primitiveType("String"),
      referenceType(primitiveType("i32"), TRUE),
      structType("A"), structType("B"), enumType("E") }

FieldLists(n, types) ==
    UNION { { [i \in 1..k |-> structField(FieldName[i], ts[i])] : ts \in [1..k -> types] }
            : k \in 1..n }

EnumDecls ==
    { enumDecl("E", vs, ds) :
        vs \in { <<enumVariantUnit("Red"), enumVariantUnit("Green")>>,
                 <<enumVariantUnit("Red"), enumVariantTuple("Rgb")>> },
        ds \in { enumDerives, parseEnumDerives } }

Orders3 == { p \in [1..3 -> 1..3] : \A i, j \in 1..3 : p[i] = p[j] => i = j }

SmallPrograms ==
    { [i \in 1..3 |-> <<structDecl("A", fa), structDecl("B", fb), e>>[p[i]]] :
        fa \in FieldLists(MaxFields, FieldTypes), fb \in FieldLists(MaxFieldsB, FieldTypesB),
        e \in EnumDecls, p \in Orders3 }

ChainName ==
    <<"S01", "S02", "S03", "S04", "S05", "S06", "S07", "S08", "S09", "S10",
      "S11", "S12", "S13", "S14">>

\* S01 { next: S02 }, ..., S(n-1) { next: Sn }, Sn { next: i32 }
ChainDecl(i, n) ==
    structDecl(ChainName[i],
        <<structField("next", IF i < n THEN structType(ChainName[i + 1])
                                        ELSE primitiveType("i32"))>>)

ChainPrograms ==
    { [i \in 1..n |-> ChainDecl(i, n)] : n \in 1..ChainLen }
    \cup { [i \in 1..n |-> ChainDecl(n + 1 - i, n)] : n \in 1..ChainLen }

\* A and B refer to each other, A also to C, which is duplicable on its own
MutualPrograms ==
    { [i \in 1..3 |->
         <<structDecl("A", <<structField("f1", structType("B")),
                             structField("f2", structType("C"))>>),
           structDecl("B", <<structField("f1", structType("A"))>>),
           structDecl("C", <<structField("f1", primitiveType("i32"))>>)>>[p[i]]] :
        p \in Orders3 }

Programs == SmallPrograms \cup ChainPrograms \cup MutualPrograms

(***************************************************************************)
(* generate(program) starts with optimizeDerives(program).                 *)
(***************************************************************************)
EmptyMap == [n \in {} |-> 0]

OwnIdle ==
    /\ func = [name |-> "", params |-> <<>>, body |-> <<>>]
    /\ stmtPos = 0
    /\ variables = EmptyMap
    /\ needsCloneSet = {}
    /\ canBorrow = {}
    /\ suggestions = {}
    /\ apc = "idle"

DispIdle ==
    /\ expr = [namespace |-> "", method |-> "", objectType |-> undefined]
    /\ handler = [table |-> "", method |-> ""]
    /\ resolved = [table |-> "", method |-> ""]
    /\ dpc = "idle"

ResolveIdle ==
    /\ irProgram = [structs |-> <<>>, enums |-> <<>>, functions |-> <<>>]
    /\ typeEnv = [scopes |-> <<>>, structs |-> EmptyMap, enums |-> EmptyMap]
    /\ funcEnv = [scopes |-> <<>>, structs |-> EmptyMap, enums |-> EmptyMap]
    /\ funcPos = 0
    /\ bodyPos = 0
    /\ rpc = "idle"

GenIdle ==
    /\ genFunc = [name |-> "", params |-> <<>>, returnType |-> noType, body |-> <<>>]
    /\ emitted = <<>>
    /\ output = <<>>
    /\ genPos = 0
    /\ gpc = "idle"

EmitIdle ==
    /\ sections = <<>>
    /\ sectionLoop = 0
    /\ sectionIdx = 0
    /\ epc = "idle"

\* module load (part_005 line 55): the global registry with its three empty collections
RegistryStart ==
    /\ setHeap = <<{}, {}, {}>>
    /\ globalTypeRegistry = [structs |-> 1, enums |-> 2, typeAliases |-> 3]
    /\ createdRegistries = <<>>
    /\ registeredIn = <<[structs |-> {}, enums |-> {}, typeAliases |-> {}]>>
    /\ resets = 0

ExtIdle == ResolveIdle /\ GenIdle /\ EmitIdle /\ RegistryStart

DeriveStart ==
    /\ copyTypes = {}
    /\ changed = TRUE
    /\ iteration = 0
    /\ idx = 0
    /\ pc = "seed"
    /\ run = 1
    /\ firstDeclarations = <<>>
    /\ firstCopyTypes = {}
    /\ diagnostics = <<>>

Init ==
    /\ declarations \in Programs
    /\ DeriveStart
    /\ OwnIdle
    /\ DispIdle
    /\ ExtIdle

\* lines 36-45 and 67-69: the seed loop over the enums, then the loop variables
SeedEnums ==
    /\ pc = "seed"
    /\ copyTypes' = seedCopyTypes(declarations)
    /\ changed' = TRUE
    /\ iteration' = 0
    /\ pc' = "while"
    /\ UNCHANGED <<declarations, idx, run, firstDeclarations, firstCopyTypes, diagnostics, ownVars, dispVars, extVars>>

\* variant: the while test is `changed` alone
BeginPassNoCap ==
    /\ pc = "while"
    /\ changed
    /\ changed' = FALSE
    /\ iteration' = iteration + 1
    /\ idx' = 1
    /\ pc' = "for"
    /\ UNCHANGED <<declarations, copyTypes, run, firstDeclarations, firstCopyTypes, diagnostics, ownVars, dispVars, extVars>>

\* line 71-73: the while test and the head of a pass
BeginPass ==
    /\ pc = "while"
    /\ changed /\ iteration < maxIterations
    /\ changed' = FALSE
    /\ iteration' = iteration + 1
    /\ idx' = 1
    /\ pc' = "for"
    /\ UNCHANGED <<declarations, copyTypes, run, firstDeclarations, firstCopyTypes, diagnostics, ownVars, dispVars, extVars>>

\* lines 75-91: one iteration of the for-of loop
ExamineDecl ==
    /\ pc = "for"
    /\ idx <= Len(declarations)
    /\ LET decl == declarations[idx] IN
        IF decl.kind = "struct" /\ decl.name \notin copyTypes /\ allCopy(decl, copyTypes)
        THEN /\ copyTypes' = copyTypes \cup {decl.name}
             /\ declarations' =
                    [declarations EXCEPT ![idx].derives = pushCopy(decl.derives)]
             /\ changed' = TRUE
        ELSE UNCHANGED <<copyTypes, declarations, changed>>
    /\ idx' = idx + 1
    /\ UNCHANGED <<iteration, pc, run, firstDeclarations, firstCopyTypes, diagnostics, ownVars, dispVars, extVars>>

\* the for-of loop is exhausted: back to the while test
EndPass ==
    /\ pc = "for"
    /\ idx > Len(declarations)
    /\ pc' = "while"
    /\ UNCHANGED <<declarations, copyTypes, changed, iteration, idx, run,
                   firstDeclarations, firstCopyTypes, diagnostics, ownVars, dispVars, extVars>>

\* line 71, 94: the while test fails and optimizeDerives returns (void)
Return ==
    /\ pc = "while"
    /\ ~(changed /\ iteration < maxIterations)
    /\ pc' = "done"
    /\ UNCHANGED <<declarations, copyTypes, changed, iteration, idx, run,
                   firstDeclarations, firstCopyTypes, diagnostics, ownVars, dispVars, extVars>>

\* generate is called again on the same program object
Rerun ==
    /\ pc = "done"
    /\ run = 1
    /\ run' = 2
    /\ firstDeclarations' = declarations
    /\ firstCopyTypes' = copyTypes
    /\ copyTypes' = {}
    /\ pc' = "seed"
    /\ UNCHANGED <<declarations, changed, iteration, idx, diagnostics, ownVars, dispVars, extVars>>

Next == SeedEnums \/ BeginPass \/ ExamineDecl \/ EndPass \/ Return \/ Rerun

Spec == Init /\ [][Next]_vars

(***************************************************************************)
(* analyzeFunction (src/src/analysis/ownership.ts), run on a function of   *)
(* a program whose derives generate has computed.                          *)
(***************************************************************************)
OwnPrograms ==
    { << enumDecl("E", <<enumVariantUnit("Red"), enumVariantUnit("Green")>>, parseEnumDerives),
         structDecl("A", <<structField("f1", primitiveType("i32")),
                           structField("f2", enumType("E"))>>),
         structDecl("B", <<structField("f1", primitiveType("String"))>>) >> }

VarTypes ==
    { primitiveType("String"), primitiveType("i32"), arrayType(primitiveType("i32")),
      structType("A"), structType("B"), enumType("E") }

DeclY == variableDecl("y", primitiveType("String"), identifier("x"))
UseY == expressionStmt(call("g", <<identifier("y")>>))

StmtPool ==
    { assignment(identifier("x"), literal),
      assignment(index(identifier("x"), literal), literal),
      returnStmt(binaryOp("+", identifier("x"), literal)),
      expressionStmt(call("f", <<identifier("x"), identifier("x")>>)),
      expressionStmt(methodCall(identifier("x"), "push", <<literal>>, "")),
      DeclY,
      UseY,
      block(<<variableDecl("x", primitiveType("String"), literal),
                  expressionStmt(call("g", <<identifier("x")>>))>>),
      ifStmt(binaryOp("==", identifier("p"), literal),
             <<expressionStmt(call("g", <<identifier("p")>>))>>, <<>>),
      whileStmt(literal, <<expressionStmt(call("g", <<propertyAccess(identifier("x"), "length")>>))>>),
      forInStmt("v", identifier("x"), <<expressionStmt(call("g", <<identifier("v")>>))>>),
      switchStmt(identifier("x"),
                 <<switchCase(literal, <<expressionStmt(call("g", <<identifier("x")>>))>>, FALSE),
                   switchCase(noValue, <<>>, FALSE)>>) }

Tails == UNION { [1..k -> StmtPool] : k \in 0..MaxStmts }

\* y is used only after its declaration
UsesAfterDecl(tail) ==
    \A i \in 1..Len(tail) : tail[i] = UseY => \E j \in 1..(i - 1) : tail[j] = DeclY

\* function f(p: String) { let x: T = <literal>; <tail> }
Functions ==
    { [name |-> "fn", params |-> <<[name |-> "p", type |-> primitiveType("String")]>>,
       body |-> <<variableDecl("x", t, literal)>> \o tail] :
        t \in VarTypes, tail \in {tl \in Tails : UsesAfterDecl(tl)} }

OwnInit ==
    /\ declarations \in OwnPrograms
    /\ DeriveStart
    /\ OwnIdle
    /\ DispIdle
    /\ ExtIdle

\* lines 63-66: analyzeFunction(func) is entered
AnalyzeStart ==
    /\ pc = "done"
    /\ apc = "idle"
    /\ \E f \in Functions : func' = f
    /\ variables' = EmptyMap
    /\ needsCloneSet' = {}
    /\ canBorrow' = {}
    /\ suggestions' = {}
    /\ stmtPos' = 1
    /\ apc' = "collect"
    /\ UNCHANGED <<deriveVars, dispVars, extVars>>

\* lines 98-105: one iteration of collectVariables(func.body, variables)
CollectStatement ==
    /\ apc = "collect"
    /\ stmtPos <= Len(func.body)
    /\ variables' = collectFromStatement(func.body[stmtPos], variables)
    /\ stmtPos' = stmtPos + 1
    /\ UNCHANGED <<func, needsCloneSet, canBorrow, suggestions, apc, deriveVars, dispVars, extVars>>

\* lines 72-92: the classification loop and the return
Classify ==
    /\ apc = "collect"
    /\ stmtPos > Len(func.body)
    /\ needsCloneSet' = needsCloneOf(variables)
    /\ canBorrow' = canBorrowOf(variables)
    /\ apc' = "analyzed"
    /\ UNCHANGED <<func, stmtPos, variables, suggestions, deriveVars, dispVars, extVars>>

\* suggestOptimizations(analysis) on the analysis analyzeFunction returned
SuggestOptimizations ==
    /\ apc = "analyzed"
    /\ suggestions' = suggestOptimizations(variables, needsCloneSet)
    /\ apc' = "suggested"
    /\ UNCHANGED <<func, stmtPos, variables, needsCloneSet, canBorrow,
                   deriveVars, dispVars, extVars>>

OwnNext ==
    \/ SeedEnums \/ BeginPass \/ ExamineDecl \/ EndPass \/ Return
    \/ AnalyzeStart \/ CollectStatement \/ Classify \/ SuggestOptimizations

OwnSpec == OwnInit /\ [][OwnNext]_vars

(***************************************************************************)
(* Builtin method registry and dispatch (src/src/codegen/builtins/index.ts *)
(* and generateMethodCall of the expression generator).  A rule is named   *)
(* by its table and its method name.                                       *)
(***************************************************************************)
arrayBuiltins ==
    { "push", "pop", "shift", "unshift", "splice", "reverse", "sort", "fill",
      "copyWithin", "slice", "concat", "join", "flat", "indexOf", "lastIndexOf",
      "includes", "find", "findIndex", "forEach", "map", "filter", "reduce",
      "reduceRight", "every", "some", "at", "toString" }

stringBuiltins ==
    { "charAt", "charCodeAt", "concat", "includes", "indexOf", "lastIndexOf",
      "slice", "substring", "toLowerCase", "toUpperCase", "trim", "trimStart",
      "trimEnd", "split", "replace", "replaceAll", "repeat", "startsWith",
      "endsWith", "padStart", "padEnd", "toString", "length" }

consoleBuiltins == { "log", "error", "warn", "info", "debug", "assert", "time", "timeEnd" }

mathBuiltins ==
    { "abs", "floor", "ceil", "round", "trunc", "sqrt", "pow", "min", "max",
      "sin", "cos", "tan", "asin", "acos", "atan", "log", "exp", "random",
      "sign", "cbrt", "hypot" }

builtinRegistry ==
    [console |-> consoleBuiltins, Array |-> arrayBuiltins,
     String |-> stringBuiltins, Math |-> mathBuiltins]

rule(table, method) == [table |-> table, method |-> method]
noRule == rule("undefined", "")

getBuiltinMethod(namespace, method) ==
    IF namespace \in DOMAIN builtinRegistry /\ method \in builtinRegistry[namespace]
    THEN rule(namespace, method) ELSE noRule

getArrayMethod(method) == IF method \in arrayBuiltins THEN rule("Array", method) ELSE noRule
getStringMethod(method) == IF method \in stringBuiltins THEN rule("String", method) ELSE noRule

isArrayType(type) == type.kind = "array"
isStringType(type) == type.kind = "primitive" /\ (type.name = "String" \/ type.name = "&str")

\* variant: slice is listed among the names only the text table has
stringOnlyMethodsWithSlice ==
    { "toUpperCase", "toLowerCase", "trim", "trimStart", "trimEnd",
      "charAt", "charCodeAt", "substring", "replace", "replaceAll",
      "split", "repeat", "startsWith", "endsWith", "padStart", "padEnd", "slice" }

stringOnlyMethods ==
    { "toUpperCase", "toLowerCase", "trim", "trimStart", "trimEnd",
      "charAt", "charCodeAt", "substring", "replace", "replaceAll",
      "split", "repeat", "startsWith", "endsWith", "padStart", "padEnd" }

arrayOnlyMethods ==
    { "push", "pop", "shift", "unshift", "splice", "reverse", "sort",
      "fill", "copyWithin", "flat", "map", "filter",
      "reduce", "reduceRight", "forEach", "every", "some", "find", "findIndex", "at" }

\* variant: an ambiguous name is tried in the text table first
resolveMethodByNameStringFirst(methodName) ==
    IF methodName \in stringOnlyMethods THEN getStringMethod(methodName)
    ELSE IF methodName \in arrayOnlyMethods THEN getArrayMethod(methodName)
    ELSE IF getStringMethod(methodName) # noRule THEN getStringMethod(methodName)
    ELSE getArrayMethod(methodName)

resolveMethodByName(methodName) ==
    IF methodName \in stringOnlyMethods THEN getStringMethod(methodName)
    ELSE IF methodName \in arrayOnlyMethods THEN getArrayMethod(methodName)
    ELSE IF getArrayMethod(methodName) # noRule THEN getArrayMethod(methodName)
    ELSE getStringMethod(methodName)

resolveMethodByType(objectType, methodName) ==
    IF objectType = undefined THEN resolveMethodByName(methodName)
    ELSE IF isArrayType(objectType) THEN getArrayMethod(methodName)
    ELSE IF isStringType(objectType) THEN getStringMethod(methodName)
    ELSE noRule

\* the rule generateMethodCall emits the call with; "unsupported" is the
\* comment emitted for an unknown namespaced method, "generic" the plain
\* obj.method(args) form
generateMethodCall(e) ==
    IF e.namespace # ""
    THEN IF getBuiltinMethod(e.namespace, e.method) # noRule
         THEN getBuiltinMethod(e.namespace, e.method)
         ELSE rule("unsupported", e.method)
    ELSE IF resolveMethodByName(e.method) # noRule
         THEN resolveMethodByName(e.method)
         ELSE rule("generic", e.method)

\* method_call expressions: known and unknown method names, with and
\* without a namespace, with and without a resolved receiver type
MethodNames ==
    arrayBuiltins \cup stringBuiltins \cup consoleBuiltins \cup mathBuiltins
        \cup {"area", "describe"}
Namespaces == {"", "console", "Math", "Array", "String", "process"}
ObjectTypes ==
    { undefined, primitiveType("String"), primitiveType("&str"), primitiveType("i32"),
      arrayType(primitiveType("i32")), arrayType(primitiveType("String")),
      structType("A"), enumType("E") }
MethodCalls == [namespace : Namespaces, method : MethodNames, objectType : ObjectTypes]

DispatchInit ==
    /\ declarations = <<>>
    /\ DeriveStart
    /\ OwnIdle
    /\ DispIdle
    /\ ExtIdle

\* the code generator reaches a method_call expression
GenerateMethodCall ==
    /\ dpc = "idle"
    /\ \E e \in MethodCalls :
        /\ expr' = e
        /\ handler' = generateMethodCall(e)
    /\ dpc' = "generateMethodCall"
    /\ UNCHANGED <<resolved, deriveVars, ownVars, extVars>>

\* a caller with type information asks the registry
ResolveMethodByType ==
    /\ dpc = "idle"
    /\ \E e \in MethodCalls :
        /\ e.namespace = ""
        /\ expr' = e
        /\ resolved' = resolveMethodByType(e.objectType, e.method)
    /\ dpc' = "resolveMethodByType"
    /\ UNCHANGED <<handler, deriveVars, ownVars, extVars>>

\* a caller without type information asks the registry
ResolveMethodByName ==
    /\ dpc = "idle"
    /\ \E e \in MethodCalls :
        /\ e.namespace = "" /\ e.objectType = undefined
        /\ expr' = e
        /\ resolved' = resolveMethodByName(e.method)
    /\ dpc' = "resolveMethodByName"
    /\ UNCHANGED <<handler, deriveVars, ownVars, extVars>>

DispatchNext == GenerateMethodCall \/ ResolveMethodByType \/ ResolveMethodByName

DispatchSpec == DispatchInit /\ [][DispatchNext]_vars

(***************************************************************************)
(* Type resolution (src/src/analysis/type-resolver.ts).  A TypeEnvironment *)
(* is the chain of its variable maps from the root scope to the innermost  *)
(* one, with the struct and enum registries of the root.                   *)
(***************************************************************************)
newTypeEnvironment == [scopes |-> <<EmptyMap>>, structs |-> EmptyMap, enums |-> EmptyMap]
child(env) == [env EXCEPT !.scopes = Append(@, EmptyMap)]
define(env, n, type) == [env EXCEPT !.scopes[Len(env.scopes)] = MapSet(@, n, type)]

lookup(env, n) ==
    LET hits == {i \in 1..Len(env.scopes) : n \in DOMAIN env.scopes[i]}
    IN  IF hits = {} THEN undefined
        ELSE env.scopes[CHOOSE i \in hits : \A j \in hits : j <= i][n]

registerStruct(env, s) == [env EXCEPT !.structs = MapSet(@, s.name, s)]
registerEnum(env, e) == [env EXCEPT !.enums = MapSet(@, e.name, e)]
lookupStruct(env, n) == IF n \in DOMAIN env.structs THEN env.structs[n] ELSE undefined
lookupEnum(env, n) == IF n \in DOMAIN env.enums THEN env.enums[n] ELSE undefined

getStructFieldType(env, structName, fieldName) ==
    LET s == lookupStruct(env, structName)
    IN  IF structName \notin DOMAIN env.structs THEN undefined
        ELSE LET hits == {i \in 1..Len(s.fields) : s.fields[i].name = fieldName}
             IN  IF hits = {} THEN undefined
                 ELSE s.fields[CHOOSE i \in hits : \A j \in hits : i <= j].type

\* returnType of the rule of a method, "" where the rule has none
arrayReturnType(m) ==
    CASE m \in {"pop", "shift", "reduce", "reduceRight", "at"} -> "element"
      [] m \in {"splice", "slice", "concat", "flat", "map", "filter"} -> "Vec"
      [] m \in {"join", "toString"} -> "String"
      [] m \in {"indexOf", "lastIndexOf", "findIndex"} -> "i32"
      [] m \in {"includes", "every", "some"} -> "bool"
      [] m = "find" -> "Option"
      [] OTHER -> ""

stringReturnType(m) ==
    CASE m = "charCodeAt" -> "f64"
      [] m \in {"includes", "startsWith", "endsWith"} -> "bool"
      [] m \in {"indexOf", "lastIndexOf"} -> "i32"
      [] m = "split" -> "Vec<String>"
      [] m = "length" -> "usize"
      [] m \in stringBuiltins -> "String"
      [] OTHER -> ""

builtinReturnType(r) ==
    CASE r.table = "Array" -> arrayReturnType(r.method)
      [] r.table = "String" -> stringReturnType(r.method)
      [] r.table = "Math" -> "f64"
      [] OTHER -> ""

\* processConstants: the type of process.<property>, after the first '&' of
\* its returnType is dropped
processConstants ==
    [pid |-> primitiveType("u32"), platform |-> primitiveType("str"),
     arch |-> primitiveType("str"), version |-> primitiveType("String"),
     versions |-> primitiveType("String"), release |-> primitiveType("String"),
     title |-> primitiveType("String"), env |-> arrayType(primitiveType("String")),
     argv |-> arrayType(primitiveType("String")), execPath |-> primitiveType("String"),
     execArgv |-> arrayType(primitiveType("String")),
     stdout |-> primitiveType("std::io::Stdout"), stderr |-> primitiveType("std::io::Stderr"),
     stdin |-> primitiveType("std::io::Stdin")]

RECURSIVE inferType(_, _)
inferType(e, env) ==
    CASE e.kind = "literal" -> e.type
      [] e.kind = "identifier" ->
            IF lookup(env, e.name) = undefined THEN primitiveType("void") ELSE lookup(env, e.name)
      [] e.kind = "binary" ->
            IF e.name \in {"<", ">", "<=", ">=", "==", "!=", "&&", "||"}
            THEN primitiveType("bool") ELSE inferType(e.args[1], env)
      [] e.kind = "unary" ->
            IF e.name = "!" THEN primitiveType("bool") ELSE inferType(e.args[1], env)
      [] e.kind = "index" ->
            LET objType == inferType(e.args[1], env)
            IN  IF isArrayType(objType) THEN objType.elements[1] ELSE primitiveType("void")
      [] e.kind = "property" ->
            LET propObjType == inferType(e.args[1], env)
            IN  IF propObjType.kind = "struct"
                THEN IF getStructFieldType(env, propObjType.name, e.name) = undefined
                     THEN primitiveType("void")
                     ELSE getStructFieldType(env, propObjType.name, e.name)
                ELSE IF e.name = "length" THEN primitiveType("usize")
                ELSE IF /\ e.args[1].kind = "identifier"
                        /\ e.args[1].name = "process"
                        /\ e.name \in DOMAIN processConstants
                     THEN processConstants[e.name]
                ELSE primitiveType("void")
      [] e.kind = "method_call" ->
            IF e.namespace # ""
            THEN IF builtinReturnType(getBuiltinMethod(e.namespace, e.name)) # ""
                 THEN primitiveType(builtinReturnType(getBuiltinMethod(e.namespace, e.name)))
                 ELSE primitiveType("void")
            ELSE IF builtinReturnType(getArrayMethod(e.name)) # ""
                 THEN primitiveType(builtinReturnType(getArrayMethod(e.name)))
            ELSE IF builtinReturnType(getStringMethod(e.name)) # ""
                 THEN primitiveType(builtinReturnType(getStringMethod(e.name)))
            ELSE primitiveType("void")
      [] e.kind = "array_literal" -> arrayType(e.type)
      [] e.kind = "struct_literal" -> structType(e.name)
      [] e.kind = "tuple_literal" ->
            tupleType([i \in 1..Len(e.args) |-> inferType(e.args[i], env)])
      [] e.kind = "enum_variant" -> enumType(e.enumName)
      [] e.kind = "ternary" -> inferType(e.args[2], env)
      [] e.kind = "cast" -> e.type
      [] OTHER -> primitiveType("void")

RECURSIVE resolveExpression(_, _)
resolveExpression(e, env) ==
    CASE e.kind = "identifier" -> [e EXCEPT !.resolvedType = lookup(env, e.name)]
      [] e.kind \in {"binary", "unary", "call", "index", "array_literal",
                     "struct_literal", "ternary"} ->
            [e EXCEPT !.args = [i \in 1..Len(e.args) |-> resolveExpression(e.args[i], env)]]
      [] e.kind = "method_call" ->
            LET as == [i \in 1..Len(e.args) |-> resolveExpression(e.args[i], env)]
            IN  [e EXCEPT !.args = as, !.objectType = inferType(as[1], env)]
      [] e.kind = "property" ->
            LET object == resolveExpression(e.args[1], env)
            IN  IF object.kind = "identifier" /\ object.name \in DOMAIN env.enums
                THEN enumVariant(object.name, e.name, <<>>)
                ELSE LET annotated == [e EXCEPT !.args = <<object>>,
                                                !.objectType = inferType(object, env)]
                     IN  [annotated EXCEPT !.resolvedType = inferType(annotated, env)]
      [] OTHER -> e

\* lines 136-140 and 153-157: a placeholder literal takes the name of a struct type
retarget(e, type) ==
    IF e.kind = "struct_literal" /\ e.name = "__anonymous__" /\ type.kind = "struct"
    THEN [e EXCEPT !.name = type.name] ELSE e

\* the result of resolving a statement: the statement as annotated and the
\* environment as the definitions made on the way leave it
RECURSIVE resolveStatement(_, _, _)
RECURSIVE resolveStatements(_, _, _)
RECURSIVE resolveCases(_, _, _, _)
resolveStatements(stmts, env, returnType) ==
    IF stmts = <<>> THEN [stmts |-> <<>>, env |-> env]
    ELSE LET h == resolveStatement(Head(stmts), env, returnType)
             t == resolveStatements(Tail(stmts), h.env, returnType)
         IN  [stmts |-> <<h.stmt>> \o t.stmts, env |-> t.env]

\* lines 195-202: the cases of a switch, each value (when present) then each body
resolveCases(values, bodies, env, returnType) ==
    IF values = <<>> THEN [values |-> <<>>, bodies |-> <<>>, env |-> env]
    ELSE LET v == IF Head(values).kind # "none"
                  THEN resolveExpression(Head(values), env) ELSE Head(values)
             b == resolveStatements(Head(bodies), env, returnType)
             t == resolveCases(Tail(values), Tail(bodies), b.env, returnType)
         IN  [values |-> <<v>> \o t.values, bodies |-> <<b.stmts>> \o t.bodies, env |-> t.env]

resolveStatement(stmt, env, returnType) ==
    CASE stmt.kind = "variable" ->
            LET init == retarget(stmt.exprs[1], stmt.type)
                env1 == define(env, stmt.name, stmt.type)
            IN  [stmt |-> [stmt EXCEPT !.exprs = <<resolveExpression(init, env1)>>], env |-> env1]
      [] stmt.kind = "assignment" ->
            [stmt |-> [stmt EXCEPT !.exprs = <<resolveExpression(stmt.exprs[1], env),
                                               resolveExpression(stmt.exprs[2], env)>>],
             env |-> env]
      [] stmt.kind = "return" ->
            IF stmt.exprs[1].kind = "none" THEN [stmt |-> stmt, env |-> env]
            ELSE LET value == IF returnType # undefined
                              THEN retarget(stmt.exprs[1], returnType) ELSE stmt.exprs[1]
                 IN  [stmt |-> [stmt EXCEPT !.exprs = <<resolveExpression(value, env)>>],
                      env |-> env]
      [] stmt.kind = "if" ->
            LET c == resolveExpression(stmt.exprs[1], env)
                t == resolveStatements(stmt.blocks[1], env, returnType)
                e == resolveStatements(stmt.blocks[2], t.env, returnType)
            IN  [stmt |-> [stmt EXCEPT !.exprs = <<c>>, !.blocks = <<t.stmts, e.stmts>>],
                 env |-> e.env]
      [] stmt.kind = "while" ->
            LET c == resolveExpression(stmt.exprs[1], env)
                b == resolveStatements(stmt.blocks[1], env, returnType)
            IN  [stmt |-> [stmt EXCEPT !.exprs = <<c>>, !.blocks = <<b.stmts>>], env |-> b.env]
      [] stmt.kind = "for_in" ->
            LET iterable == resolveExpression(stmt.exprs[1], env)
                iterType == inferType(iterable, env)
                env1 == IF isArrayType(iterType)
                        THEN define(env, stmt.name, iterType.elements[1]) ELSE env
                b == resolveStatements(stmt.blocks[1], env1, returnType)
            IN  [stmt |-> [stmt EXCEPT !.exprs = <<iterable>>, !.blocks = <<b.stmts>>],
                 env |-> b.env]
      [] stmt.kind = "switch" ->
            LET d == resolveExpression(stmt.exprs[1], env)
                cs == resolveCases(Tail(stmt.exprs), stmt.blocks, env, returnType)
            IN  [stmt |-> [stmt EXCEPT !.exprs = <<d>> \o cs.values, !.blocks = cs.bodies],
                 env |-> cs.env]
      [] stmt.kind = "expression" ->
            [stmt |-> [stmt EXCEPT !.exprs = <<resolveExpression(stmt.exprs[1], env)>>],
             env |-> env]
      [] stmt.kind = "block" ->
            LET b == resolveStatements(stmt.blocks[1], child(env), returnType)
            IN  [stmt |-> [stmt EXCEPT !.blocks = <<b.stmts>>], env |-> env]
      [] OTHER -> [stmt |-> stmt, env |-> env]

(***************************************************************************)
(* The programs given to resolveTypes: struct Point {x, y}, struct Line    *)
(* {a, b: Point}, enum Color {Red, Green} and one function                 *)
(* f(p: Point, q: i32[]) whose body parseObjectLiteral and the statement   *)
(* parser produced: every object literal carries the placeholder name.     *)
(***************************************************************************)
i32 == primitiveType("i32")
anonymous(fields) == structLiteral("__anonymous__", fields)
PointLiteral == anonymous(<<literal, literal>>)
ColorRed == propertyAccess(identifier("Color"), "Red")
DeclT == variableDecl("t", i32, literal)
UseT == expressionStmt(call("g", <<identifier("t")>>))

ResolveStmtPool ==
    { variableDecl("s", structType("Point"), PointLiteral),
      variableDecl("n", i32, call("g", <<PointLiteral>>)),
      variableDecl("arr", arrayType(structType("Point")),
                   arrayLiteral(<<PointLiteral>>, structType("Point"))),
      variableDecl("l", structType("Line"), anonymous(<<PointLiteral, PointLiteral>>)),
      assignment(identifier("p"), PointLiteral),
      returnStmt(PointLiteral),
      returnStmt(propertyAccess(identifier("p"), "x")),
      returnStmt(noValue),
      variableDecl("c", enumType("Color"), ColorRed),
      expressionStmt(call("g", <<tupleLiteral(<<ColorRed, literal>>)>>)),
      expressionStmt(call("g", <<cast(ColorRed, i32)>>)),
      expressionStmt(methodCall(identifier("q"), "push", <<propertyAccess(ColorRed, "length")>>, "")),
      block(<<DeclT, UseT>>),
      UseT,
      ifStmt(binaryOp("==", identifier("t"), unaryOp("-", literal)), <<DeclT>>, <<UseT>>),
      whileStmt(ternary(identifier("t"), literal, literal), <<DeclT>>),
      forInStmt("t", identifier("q"), <<UseT>>),
      switchStmt(identifier("t"), <<switchCase(ColorRed, <<DeclT>>, FALSE),
                                    switchCase(noValue, <<UseT>>, FALSE)>>),
      expressionStmt(index(identifier("q"), identifier("t"))) }

Bodies(n) == UNION {[1..k -> ResolveStmtPool] : k \in 1..n}

ResolvePrograms ==
    { [structs |-> <<structDecl("Point", <<structField("x", i32), structField("y", i32)>>),
                     structDecl("Line", <<structField("a", structType("Point")),
                                          structField("b", structType("Point"))>>)>>,
       enums |-> <<enumDecl("Color", <<enumVariantUnit("Red"), enumVariantUnit("Green")>>,
                            enumDerives)>>,
       functions |-> <<[name |-> "f",
                        params |-> <<[name |-> "p", type |-> structType("Point")],
                                     [name |-> "q", type |-> arrayType(i32)]>>,
                        returnType |-> rt,
                        body |-> body]>>] :
        rt \in {structType("Point"), i32}, body \in Bodies(MaxBody) }

ResolveInit ==
    /\ declarations = <<>>
    /\ DeriveStart
    /\ OwnIdle
    /\ DispIdle
    /\ GenIdle
    /\ EmitIdle
    /\ RegistryStart
    /\ irProgram \in ResolvePrograms
    /\ typeEnv = [scopes |-> <<>>, structs |-> EmptyMap, enums |-> EmptyMap]
    /\ funcEnv = [scopes |-> <<>>, structs |-> EmptyMap, enums |-> EmptyMap]
    /\ funcPos = 0
    /\ bodyPos = 0
    /\ rpc = "start"

RECURSIVE registerAll(_, _, _)
registerAll(env, decls, isStruct) ==
    IF decls = <<>> THEN env
    ELSE registerAll(IF isStruct THEN registerStruct(env, Head(decls))
                     ELSE registerEnum(env, Head(decls)),
                     Tail(decls), isStruct)

RECURSIVE defineParams(_, _)
defineParams(env, params) ==
    IF params = <<>> THEN env
    ELSE defineParams(define(env, Head(params).name, Head(params).type), Tail(params))

\* lines 94-102: a new environment, every struct and enum registered
RegisterDeclarations ==
    /\ rpc = "start"
    /\ typeEnv' = registerAll(registerAll(newTypeEnvironment, irProgram.structs, TRUE),
                              irProgram.enums, FALSE)
    /\ funcPos' = 1
    /\ rpc' = "functions"
    /\ UNCHANGED <<irProgram, funcEnv, bodyPos, outsideResolve>>

\* lines 105-106 and 116-121: the next function is entered
ResolveFunction ==
    /\ rpc = "functions"
    /\ funcPos <= Len(irProgram.functions)
    /\ funcEnv' = defineParams(child(typeEnv), irProgram.functions[funcPos].params)
    /\ bodyPos' = 1
    /\ rpc' = "body"
    /\ UNCHANGED <<irProgram, typeEnv, funcPos, outsideResolve>>

\* lines 124-126: one statement of the body is resolved
ResolveStatement ==
    /\ rpc = "body"
    /\ bodyPos <= Len(irProgram.functions[funcPos].body)
    /\ LET f == irProgram.functions[funcPos]
           r == resolveStatement(f.body[bodyPos], funcEnv, f.returnType)
       IN  /\ irProgram' = [irProgram EXCEPT !.functions[funcPos].body[bodyPos] = r.stmt]
           /\ funcEnv' = r.env
    /\ bodyPos' = bodyPos + 1
    /\ UNCHANGED <<typeEnv, funcPos, rpc, outsideResolve>>

\* line 127: resolveFunction returns
EndFunction ==
    /\ rpc = "body"
    /\ bodyPos > Len(irProgram.functions[funcPos].body)
    /\ funcPos' = funcPos + 1
    /\ rpc' = "functions"
    /\ UNCHANGED <<irProgram, typeEnv, funcEnv, bodyPos, outsideResolve>>

\* line 109: resolveTypes returns the environment
ResolveReturn ==
    /\ rpc = "functions"
    /\ funcPos > Len(irProgram.functions)
    /\ rpc' = "done"
    /\ UNCHANGED <<irProgram, typeEnv, funcEnv, funcPos, bodyPos, outsideResolve>>

ResolveNext ==
    \/ RegisterDeclarations
    \/ ResolveFunction
    \/ ResolveStatement
    \/ EndFunction
    \/ ResolveReturn

ResolveSpec == ResolveInit /\ [][ResolveNext]_vars

(***************************************************************************)
(* Statement and function generation (src/src/codegen/statements.ts,       *)
(* generateFunction).  An emitted line is a record: form names the line's  *)
(* template, indent is the number of indent() levels in front of it, name  *)
(* and exprs are the names and expressions the template is filled with.    *)
(*   tail         <expr>                 expr_stmt   <expr>;               *)
(*   return_value return <expr>;         return      return;               *)
(*   arm          <expr> => {            default_arm _ => {                *)
(*   arm_close    }  (of an arm)         catch_all   _ => {}               *)
(***************************************************************************)
line(form, level, n, es) == [form |-> form, indent |-> level, name |-> n, exprs |-> es]

isVoidType(type) == type.kind = "primitive" /\ type.name = "void"

\* isStatement of the rule of a method
isStatement(r) ==
    \/ r.table = "console"
    \/ r.table = "Array" /\ r.method \in {"push", "unshift", "reverse", "sort", "fill",
                                          "copyWithin", "forEach"}

generateVariable(stmt, ind) ==
    IF stmt.type.kind \in {"array", "struct", "enum"}
    THEN <<line("let_typed", ind, stmt.name, stmt.exprs)>>
    ELSE <<line("let", ind, stmt.name, stmt.exprs)>>

\* variant: a return with a value always keeps its keyword and terminator
generateReturnExplicit(stmt, ind, isLastInNonVoidFn) ==
    IF stmt.exprs[1].kind # "none" THEN <<line("return_value", ind, "", stmt.exprs)>>
    ELSE IF ~isLastInNonVoidFn THEN <<line("return", ind, "", <<>>)>>
    ELSE <<>>

generateReturn(stmt, ind, isLastInNonVoidFn) ==
    IF stmt.exprs[1].kind # "none"
    THEN IF isLastInNonVoidFn THEN <<line("tail", ind, "", stmt.exprs)>>
         ELSE <<line("return_value", ind, "", stmt.exprs)>>
    ELSE IF ~isLastInNonVoidFn THEN <<line("return", ind, "", <<>>)>>
    ELSE <<>>

generateExpressionStmt(stmt, ind, isLastInNonVoidFn) ==
    LET e == stmt.exprs[1]
    IN  IF /\ e.kind = "method_call"
           /\ IF e.namespace # "" THEN isStatement(getBuiltinMethod(e.namespace, e.name))
              ELSE isStatement(getArrayMethod(e.name))
        THEN <<line("expr_stmt", ind, "", stmt.exprs)>>
        ELSE IF isLastInNonVoidFn THEN <<line("tail", ind, "", stmt.exprs)>>
        ELSE <<line("expr_stmt", ind, "", stmt.exprs)>>

RECURSIVE generateStatement(_, _, _)
RECURSIVE generateEach(_, _, _, _)
RECURSIVE generateArms(_, _, _)

\* the statements of a list from position i on, each generated at the given
\* level; the last one is generated with the flag lastFlag, the others with FALSE
generateEach(stmts, i, level, lastFlag) ==
    IF i > Len(stmts) THEN <<>>
    ELSE generateStatement(stmts[i], level, i = Len(stmts) /\ lastFlag)
         \o generateEach(stmts, i + 1, level, lastFlag)

\* variant: the body of a case recorded as falling through is followed, in
\* the same arm, by the body of the next case
RECURSIVE generateArmsChained(_, _, _)
generateArmsChained(stmt, c, indentLevel) ==
    IF c > Len(stmt.blocks) THEN <<>>
    ELSE <<IF stmt.exprs[c + 1].kind = "none"
           THEN line("default_arm", indentLevel + 1, "", <<>>)
           ELSE line("arm", indentLevel + 1, "", <<stmt.exprs[c + 1]>>)>>
         \o generateEach(stmt.blocks[c], 1, indentLevel + 2, FALSE)
         \o (IF stmt.fallthrough[c] /\ c < Len(stmt.blocks)
             THEN generateEach(stmt.blocks[c + 1], 1, indentLevel + 2, FALSE) ELSE <<>>)
         \o <<line("arm_close", indentLevel + 1, "", <<>>)>>
         \o generateArmsChained(stmt, c + 1, indentLevel)

\* lines 221-234: the arms of the cases from position c on
generateArms(stmt, c, indentLevel) ==
    IF c > Len(stmt.blocks) THEN <<>>
    ELSE <<IF stmt.exprs[c + 1].kind = "none"
           THEN line("default_arm", indentLevel + 1, "", <<>>)
           ELSE line("arm", indentLevel + 1, "", <<stmt.exprs[c + 1]>>)>>
         \o generateEach(stmt.blocks[c], 1, indentLevel + 2, FALSE)
         \o <<line("arm_close", indentLevel + 1, "", <<>>)>>
         \o generateArms(stmt, c + 1, indentLevel)

generateSwitch(stmt, indentLevel) ==
    <<line("match", indentLevel, "", <<stmt.exprs[1]>>)>>
    \o generateArms(stmt, 1, indentLevel)
    \o (IF \E c \in 1..Len(stmt.blocks) : stmt.exprs[c + 1].kind = "none" THEN <<>>
        ELSE <<line("catch_all", indentLevel + 1, "", <<>>)>>)
    \o <<line("close", indentLevel, "", <<>>)>>

generateIf(stmt, indentLevel, isLastInNonVoidFn) ==
    <<line("if", indentLevel, "", stmt.exprs)>>
    \o generateEach(stmt.blocks[1], 1, indentLevel + 1,
                    isLastInNonVoidFn /\ stmt.blocks[2] = <<>>)
    \o (IF stmt.blocks[2] # <<>>
        THEN <<line("else", indentLevel, "", <<>>)>>
             \o generateEach(stmt.blocks[2], 1, indentLevel + 1, isLastInNonVoidFn)
        ELSE <<>>)
    \o <<line("close", indentLevel, "", <<>>)>>

generateWhile(stmt, indentLevel) ==
    <<line("while", indentLevel, "", stmt.exprs)>>
    \o generateEach(stmt.blocks[1], 1, indentLevel + 1, FALSE)
    \o <<line("close", indentLevel, "", <<>>)>>

generateForIn(stmt, indentLevel) ==
    <<line("for", indentLevel, stmt.name, stmt.exprs)>>
    \o generateEach(stmt.blocks[1], 1, indentLevel + 1, FALSE)
    \o <<line("close", indentLevel, "", <<>>)>>

generateStatement(stmt, indentLevel, isLastInNonVoidFn) ==
    CASE stmt.kind = "variable" -> generateVariable(stmt, indentLevel)
      [] stmt.kind = "assignment" -> <<line("assign", indentLevel, "", stmt.exprs)>>
      [] stmt.kind = "return" -> generateReturn(stmt, indentLevel, isLastInNonVoidFn)
      [] stmt.kind = "if" -> generateIf(stmt, indentLevel, isLastInNonVoidFn)
      [] stmt.kind = "while" -> generateWhile(stmt, indentLevel)
      [] stmt.kind = "for_in" -> generateForIn(stmt, indentLevel)
      [] stmt.kind = "switch" -> generateSwitch(stmt, indentLevel)
      [] stmt.kind = "break" -> <<line("break", indentLevel, "", <<>>)>>
      [] stmt.kind = "continue" -> <<line("continue", indentLevel, "", <<>>)>>
      [] stmt.kind = "expression" -> generateExpressionStmt(stmt, indentLevel, isLastInNonVoidFn)
      [] stmt.kind = "block" -> generateEach(stmt.blocks[1], 1, indentLevel, isLastInNonVoidFn)
      [] OTHER -> <<>>

(***************************************************************************)
(* parseSwitchStatement (src/src/parser/statements.ts): a clause is        *)
(* [default, value, statements], statements as parseStatement returned     *)
(* them.                                                                   *)
(***************************************************************************)
parseSwitchStatement(discriminant, clauses) ==
    switchStmt(discriminant,
        [i \in 1..Len(clauses) |->
            LET statements == clauses[i].statements
                hasBreak == Len(statements) > 0 /\ statements[Len(statements)].kind = "break"
                bodyStatements == IF hasBreak THEN SubSeq(statements, 1, Len(statements) - 1)
                                  ELSE statements
                fallthrough == ~hasBreak /\ Len(statements) > 0
            IN  IF ~clauses[i].default
                THEN switchCase(clauses[i].value, bodyStatements, fallthrough)
                ELSE switchCase(noValue, bodyStatements, FALSE)])

(***************************************************************************)
(* The functions given to generateFunction: f(): void or f(): i32 whose    *)
(* body is one parsed switch statement or a short list of statements.      *)
(***************************************************************************)
CallG == expressionStmt(call("g", <<>>))
ReturnX == returnStmt(identifier("x"))
CaseValue(i) == identifier(<<"A", "B", "C", "D", "E">>[i])

ClauseBodies ==
    { <<>>,
      <<CallG, breakStmt>>,
      <<CallG>>,
      <<ifStmt(identifier("c"), <<breakStmt>>, <<>>), CallG, breakStmt>>,
      <<ReturnX>> }

Clauses(n) ==
    { cs \in [1..n -> [default : BOOLEAN, value : {noValue}, statements : ClauseBodies]] :
        Cardinality({i \in 1..n : cs[i].default}) <= 1 }

SwitchStatements ==
    { parseSwitchStatement(identifier("d"),
                           [i \in 1..Len(cs) |-> [cs[i] EXCEPT !.value = CaseValue(i)]]) :
        cs \in UNION {Clauses(n) : n \in 1..MaxCases} }

GenStmtPool ==
    { ReturnX,
      returnStmt(noValue),
      CallG,
      expressionStmt(methodCall(identifier("q"), "push", <<literal>>, "")),
      expressionStmt(methodCall(identifier("console"), "log", <<literal>>, "console")),
      expressionStmt(methodCall(identifier("s"), "trim", <<>>, "")),
      expressionStmt(methodCall(identifier("Math"), "abs", <<literal>>, "Math")),
      variableDecl("v", i32, literal),
      variableDecl("w", structType("Point"), identifier("p")),
      assignment(identifier("x"), literal),
      ifStmt(identifier("c"), <<ReturnX>>, <<>>),
      ifStmt(identifier("c"), <<ReturnX>>, <<CallG>>),
      block(<<CallG, ReturnX>>),
      whileStmt(identifier("c"), <<CallG, continueStmt>>),
      forInStmt("e", identifier("q"), <<ReturnX>>),
      assignment(identifier("x"), PointLiteral),
      expressionStmt(call("g", <<PointLiteral>>)) }

GenBodies ==
    {<<sw>> : sw \in SwitchStatements}
    \cup UNION {[1..k -> GenStmtPool] : k \in 1..MaxGenBody}

GenFunctions ==
    { [name |-> "f", params |-> <<>>, returnType |-> rt, body |-> body] :
        rt \in {noType, i32}, body \in GenBodies }

GenInit ==
    /\ declarations = <<>>
    /\ DeriveStart
    /\ OwnIdle
    /\ DispIdle
    /\ ResolveIdle
    /\ EmitIdle
    /\ RegistryStart
    /\ genFunc \in GenFunctions
    /\ emitted = <<>>
    /\ output = <<>>
    /\ genPos = 0
    /\ gpc = "start"

\* lines 20-30: the signature line
GenerateSignature ==
    /\ gpc = "start"
    /\ output' = <<line(IF isVoidType(genFunc.returnType) THEN "fn" ELSE "fn_returning",
                        0, genFunc.name, <<>>)>>
    /\ genPos' = 1
    /\ gpc' = "body"
    /\ UNCHANGED <<genFunc, emitted, outsideGen>>

\* lines 33-39: one statement of the body is generated
GenerateBodyStatement ==
    /\ gpc = "body"
    /\ genPos <= Len(genFunc.body)
    /\ LET isLast == genPos = Len(genFunc.body)
           lines == generateStatement(genFunc.body[genPos], 1,
                                      isLast /\ ~isVoidType(genFunc.returnType))
       IN  /\ emitted' = Append(emitted, lines)
           /\ output' = output \o lines
    /\ genPos' = genPos + 1
    /\ UNCHANGED <<genFunc, gpc, outsideGen>>

\* lines 41-43: the closing brace, the joined lines are returned
GenerateFunctionReturn ==
    /\ gpc = "body"
    /\ genPos > Len(genFunc.body)
    /\ output' = Append(output, line("close", 0, "", <<>>))
    /\ gpc' = "done"
    /\ UNCHANGED <<genFunc, emitted, genPos, outsideGen>>

GenNext ==
    \/ GenerateSignature
    \/ GenerateBodyStatement
    \/ GenerateFunctionReturn

GenSpec == GenInit /\ [][GenNext]_vars

(***************************************************************************)
(* generate (src/unnamed/part_003): after optimizeDerives, five loops over *)
(* program.declarations push the sections.  A section is the text of one   *)
(* declaration, kept as what it declares and the named types its text      *)
(* mentions, in order.                                                     *)
(***************************************************************************)
\* the struct and enum names irTypeToRust writes for a type
RECURSIVE irTypeToRust(_)
RECURSIVE namesOfTypes(_)
namesOfTypes(types) ==
    IF types = <<>> THEN <<>> ELSE irTypeToRust(Head(types)) \o namesOfTypes(Tail(types))
irTypeToRust(type) ==
    IF type.kind \in {"struct", "enum"} THEN <<type.name>>
    ELSE namesOfTypes(type.elements)

namesOfParams(params) == namesOfTypes([i \in 1..Len(params) |-> params[i].type])

RECURSIVE namesOfMethods(_)
namesOfMethods(methods) ==
    IF methods = <<>> THEN <<>>
    ELSE namesOfParams(Head(methods).params)
         \o (IF isVoidType(Head(methods).returnType) THEN <<>>
             ELSE irTypeToRust(Head(methods).returnType))
         \o namesOfMethods(Tail(methods))

section(k, n, refers) == [kind |-> k, name |-> n, refers |-> refers]

generateDeclaration(decl) ==
    CASE decl.kind = "function" ->
            section("function", decl.name,
                    namesOfParams(decl.fields)
                    \o (IF isVoidType(decl.type) THEN <<>> ELSE irTypeToRust(decl.type)))
      [] decl.kind = "struct" -> section("struct", decl.name, namesOfParams(decl.fields))
      [] decl.kind = "enum" -> section("enum", decl.name, <<>>)
      [] decl.kind = "type_alias" -> section("type_alias", decl.name, irTypeToRust(decl.type))
      [] decl.kind = "impl" ->
            section("impl", decl.name, <<decl.name>> \o namesOfMethods(decl.methods))

generateConsoleHelpers == section("helpers", "", <<>>)

\* variant: the enums are emitted before the structs
loopKindEnumsFirst == <<"enum", "struct", "type_alias", "impl", "function">>

\* lines 112-145: the kind each of the five loops emits
loopKind == <<"struct", "enum", "type_alias", "impl", "function">>

DeclPool ==
    { structDecl("A", <<structField("b", structType("B"))>>),
      structDecl("B", <<structField("x", i32)>>),
      structDecl("C", <<structField("e", enumType("E")), structField("n", optionalType(i32))>>),
      enumDecl("E", <<enumVariantUnit("Red"), enumVariantUnit("Green")>>, parseEnumDerives),
      typeAliasDecl("T", arrayType(structType("B"))),
      implBlock("B", <<implMethod("m", <<param("e", enumType("E"))>>, i32, <<>>)>>),
      functionDecl("f", <<param("a", structType("A"))>>, enumType("E"), <<>>),
      functionDecl("g", <<>>, noType, <<>>) }

Declares(decls) ==
    {decls[i].name : i \in {j \in 1..Len(decls) : decls[j].kind \in {"struct", "enum", "type_alias"}}}

\* the programs: every ordering of up to MaxDecls different declarations of
\* the pool in which every named type that is mentioned is declared
EmitPrograms ==
    { decls \in UNION {[1..n -> DeclPool] : n \in 1..MaxDecls} :
        /\ \A i, j \in 1..Len(decls) : i # j => decls[i] # decls[j]
        /\ \A i \in 1..Len(decls) :
            \A k \in 1..Len(generateDeclaration(decls[i]).refers) :
                generateDeclaration(decls[i]).refers[k] \in Declares(decls) }

EmitInit ==
    /\ declarations \in EmitPrograms
    /\ DeriveStart
    /\ OwnIdle
    /\ DispIdle
    /\ ResolveIdle
    /\ GenIdle
    /\ RegistryStart
    /\ sections = <<>>
    /\ sectionLoop = 0
    /\ sectionIdx = 0
    /\ epc = "start"

\* line 110, after optimizeDerives has returned
StartSections ==
    /\ pc = "done"
    /\ epc = "start"
    /\ sectionLoop' = 1
    /\ sectionIdx' = 1
    /\ epc' = "loop"
    /\ UNCHANGED <<sections, deriveVars, outsideEmit>>

\* lines 113-145: one declaration is looked at by the running loop
PushSection ==
    /\ epc = "loop"
    /\ sectionIdx <= Len(declarations)
    /\ sections' = IF declarations[sectionIdx].kind = loopKind[sectionLoop]
                   THEN Append(sections, generateDeclaration(declarations[sectionIdx]))
                   ELSE sections
    /\ sectionIdx' = sectionIdx + 1
    /\ UNCHANGED <<sectionLoop, epc, deriveVars, outsideEmit>>

\* one loop is exhausted, the next one starts
NextLoop ==
    /\ epc = "loop"
    /\ sectionIdx > Len(declarations)
    /\ sectionLoop < Len(loopKind)
    /\ sectionLoop' = sectionLoop + 1
    /\ sectionIdx' = 1
    /\ UNCHANGED <<sections, epc, deriveVars, outsideEmit>>

\* lines 147-150: the console helpers, then the sections are joined and returned
PushConsoleHelpers ==
    /\ epc = "loop"
    /\ sectionIdx > Len(declarations)
    /\ sectionLoop = Len(loopKind)
    /\ sections' = Append(sections, generateConsoleHelpers)
    /\ epc' = "done"
    /\ UNCHANGED <<sectionLoop, sectionIdx, deriveVars, outsideEmit>>

EmitNext ==
    \/ SeedEnums
    \/ BeginPass
    \/ ExamineDecl
    \/ EndPass
    \/ Return
    \/ StartSections
    \/ PushSection
    \/ NextLoop
    \/ PushConsoleHelpers

EmitSpec == EmitInit /\ [][EmitNext]_vars

(***************************************************************************)
(* The parser's type registries (src/unnamed/part_005 TypeRegistry,        *)
(* src/src/parser/index.ts).  A registry object holds the identities of    *)
(* its three collections; setHeap gives each collection's contents (for    *)
(* typeAliases, the aliased names).                                        *)
(***************************************************************************)
\* new TypeRegistry(): three new empty collections
newTypeRegistry(heap) ==
    [registry |-> [structs |-> Len(heap) + 1, enums |-> Len(heap) + 2,
                   typeAliases |-> Len(heap) + 3],
     heap |-> heap \o <<{}, {}, {}>>]

addStruct(heap, registry, n) == [heap EXCEPT ![registry.structs] = @ \cup {n}]
addEnum(heap, registry, n) == [heap EXCEPT ![registry.enums] = @ \cup {n}]
addTypeAlias(heap, registry, n) == [heap EXCEPT ![registry.typeAliases] = @ \cup {n}]

isStruct(heap, registry, n) == n \in heap[registry.structs]
isEnum(heap, registry, n) == n \in heap[registry.enums]
hasTypeAlias(heap, registry, n) == n \in heap[registry.typeAliases]
isKnownType(heap, registry, n) ==
    isStruct(heap, registry, n) \/ isEnum(heap, registry, n) \/ hasTypeAlias(heap, registry, n)

\* variant: only the structs collection is taken over from the source object
ObjectAssignStructsOnly(target, source) == [target EXCEPT !.structs = source.structs]

\* Object.assign(target, source): every own property of source is copied
ObjectAssign(target, source) ==
    [target EXCEPT !.structs = source.structs, !.enums = source.enums,
                   !.typeAliases = source.typeAliases]

\* parseDeclarations(sourceFile, registry): the names a unit declares are registered
RECURSIVE registerNames(_, _, _, _)
registerNames(heap, registry, collection, names) ==
    IF names = {} THEN heap
    ELSE LET n == CHOOSE x \in names : TRUE
             h == CASE collection = "structs" -> addStruct(heap, registry, n)
                    [] collection = "enums" -> addEnum(heap, registry, n)
                    [] OTHER -> addTypeAlias(heap, registry, n)
         IN  registerNames(h, registry, collection, names \ {n})

parseDeclarations(heap, registry, unit) ==
    registerNames(registerNames(registerNames(heap, registry, "structs", unit.structs),
                                registry, "enums", unit.enums),
                  registry, "typeAliases", unit.typeAliases)

\* translation units, by the names their interfaces, enums and type aliases declare
Units ==
    { [structs |-> {"P"}, enums |-> {"E"}, typeAliases |-> {"T"}],
      [structs |-> {"Q"}, enums |-> {}, typeAliases |-> {}],
      [structs |-> {"P", "Q"}, enums |-> {"F"}, typeAliases |-> {}] }

TypeNames == {"P", "Q", "E", "F", "T"}

noNames == [structs |-> {}, enums |-> {}, typeAliases |-> {}]
withUnit(r, unit) ==
    [structs |-> r.structs \cup unit.structs, enums |-> r.enums \cup unit.enums,
     typeAliases |-> r.typeAliases \cup unit.typeAliases]

RegistryInit ==
    /\ declarations = <<>>
    /\ DeriveStart
    /\ OwnIdle
    /\ DispIdle
    /\ ResolveIdle
    /\ GenIdle
    /\ EmitIdle
    /\ RegistryStart

\* parse(sourceFile): the registry defaults to the global one
ParseGlobal ==
    \E unit \in Units :
        /\ setHeap' = parseDeclarations(setHeap, globalTypeRegistry, unit)
        /\ registeredIn' = [registeredIn EXCEPT ![1] = withUnit(@, unit)]
        /\ UNCHANGED <<globalTypeRegistry, createdRegistries, resets, outsideRegistry>>

\* parse(sourceFile, registry) with a registry createTypeRegistry() returned
ParseIsolated ==
    \E k \in 1..Len(createdRegistries), unit \in Units :
        /\ setHeap' = parseDeclarations(setHeap, createdRegistries[k], unit)
        /\ registeredIn' = [registeredIn EXCEPT ![k + 1] = withUnit(@, unit)]
        /\ UNCHANGED <<globalTypeRegistry, createdRegistries, resets, outsideRegistry>>

CreateTypeRegistry ==
    /\ Len(createdRegistries) < MaxRegistries
    /\ LET new == newTypeRegistry(setHeap)
       IN  /\ setHeap' = new.heap
           /\ createdRegistries' = Append(createdRegistries, new.registry)
    /\ registeredIn' = Append(registeredIn, noNames)
    /\ UNCHANGED <<globalTypeRegistry, resets, outsideRegistry>>

ResetGlobalRegistry ==
    /\ resets < MaxResets
    /\ LET fresh == newTypeRegistry(setHeap)
       IN  /\ setHeap' = fresh.heap
           /\ globalTypeRegistry' = ObjectAssign(globalTypeRegistry, fresh.registry)
    /\ registeredIn' = [registeredIn EXCEPT ![1] = noNames]
    /\ resets' = resets + 1
    /\ UNCHANGED <<createdRegistries, outsideRegistry>>

RegistryNext ==
    \/ ParseGlobal
    \/ ParseIsolated
    \/ CreateTypeRegistry
    \/ ResetGlobalRegistry

RegistrySpec == RegistryInit /\ [][RegistryNext]_vars

(***************************************************************************)
(* Expression generation (src/unnamed/part_009).  The text of an           *)
(* expression is a sequence of tokens; a token records the string and the  *)
(* conversion it went through ("" when written as it is).  A literal's     *)
(* value and a struct literal's field names are not part of the IR records *)
(* here, so their tokens are left out.                                     *)
(***************************************************************************)
raw(s) == <<[conv |-> "", text |-> s]>>
toSnakeCase(s) == <<[conv |-> "toSnakeCase", text |-> s]>>
generateRust(r) == <<[conv |-> "generateRust", text |-> r.method]>>

mathConstants == {"PI", "E", "LN2", "LN10", "LOG2E", "LOG10E", "SQRT2", "SQRT1_2"}

RECURSIVE generateExpression(_)
RECURSIVE joinExpressions(_, _)

\* exprs.map(generateExpression).join(', ') from position i on
joinExpressions(exprs, i) ==
    IF i > Len(exprs) THEN <<>>
    ELSE generateExpression(exprs[i])
         \o (IF i < Len(exprs) THEN raw(",") ELSE <<>>)
         \o joinExpressions(exprs, i + 1)

generateExpression(e) ==
    CASE e.kind = "literal" -> raw("literal")
      [] e.kind = "identifier" -> toSnakeCase(e.name)
      [] e.kind = "binary" ->
            generateExpression(e.args[1]) \o raw(e.name) \o generateExpression(e.args[2])
      [] e.kind = "unary" -> raw(e.name) \o generateExpression(e.args[1])
      [] e.kind = "call" ->
            toSnakeCase(e.name) \o raw("(") \o joinExpressions(e.args, 1) \o raw(")")
      [] e.kind = "method_call" ->
            LET h == generateMethodCall([namespace |-> e.namespace, method |-> e.name,
                                         objectType |-> e.objectType])
            IN  IF h.table = "unsupported" THEN raw("/* not supported */")
                ELSE IF e.namespace # "" THEN generateRust(h) \o joinExpressions(e.args, 2)
                ELSE IF h.table = "generic"
                    THEN generateExpression(e.args[1]) \o raw(".") \o toSnakeCase(e.name)
                         \o raw("(") \o joinExpressions(e.args, 2) \o raw(")")
                ELSE generateRust(h) \o generateExpression(e.args[1])
                     \o joinExpressions(e.args, 2)
      [] e.kind = "index" ->
            generateExpression(e.args[1]) \o raw("[") \o generateExpression(e.args[2])
            \o (IF e.args[2].kind = "literal" THEN <<>> ELSE raw("as usize")) \o raw("]")
      [] e.kind = "property" ->
            IF e.args[1] = identifier("Math") /\ e.name \in mathConstants
            THEN raw(e.name)
            ELSE IF e.name = "length" THEN generateExpression(e.args[1]) \o raw(".len()")
            ELSE generateExpression(e.args[1]) \o raw(".") \o toSnakeCase(e.name)
      [] e.kind = "array_literal" -> raw("vec![") \o joinExpressions(e.args, 1) \o raw("]")
      [] e.kind = "struct_literal" ->
            raw(e.name) \o raw("{") \o joinExpressions(e.args, 1) \o raw("}")
      [] e.kind = "tuple_literal" -> raw("(") \o joinExpressions(e.args, 1) \o raw(")")
      [] e.kind = "enum_variant" ->
            raw(e.enumName) \o raw("::") \o raw(e.name)
            \o (IF e.args = <<>> THEN <<>>
                ELSE raw("(") \o joinExpressions(e.args, 1) \o raw(")"))
      [] e.kind = "ternary" ->
            raw("if") \o generateExpression(e.args[1]) \o raw("{")
            \o generateExpression(e.args[2]) \o raw("} else {")
            \o generateExpression(e.args[3]) \o raw("}")
      [] e.kind = "cast" ->
            LET names == irTypeToRust(e.type)
            IN  raw("(") \o generateExpression(e.args[1]) \o raw("as")
                \o [i \in 1..Len(names) |-> [conv |-> "", text |-> names[i]]] \o raw(")")

(***************************************************************************)
(* Properties of the derive closure.                                       *)
(***************************************************************************)
IsStruct(i) == declarations[i].kind = "struct"
IsEnum(i) == declarations[i].kind = "enum"
Tagged(d) == Includes(d.derives, "Copy")
UnitOnly(d) == \A k \in 1..Len(d.variants) : d.variants[k].kind = "unit"

\* duplicability of a type under a set of names, as the specification states it
RECURSIVE Duplicable(_, _)
Duplicable(type, set) ==
    IF type.kind = "primitive" THEN type.name # "String"
    ELSE IF type.kind = "tuple"
        THEN \A i \in 1..Len(type.elements) : Duplicable(type.elements[i], set)
    ELSE IF type.kind = "reference" THEN ~type.mutable
    ELSE IF type.kind = "enum" \/ type.kind = "struct" THEN type.name \in set
    ELSE FALSE

AllFieldsDuplicable(d, set) ==
    \A k \in 1..Len(d.fields) : Duplicable(d.fields[k].type, set)

\* C1: when optimizeDerives has returned, a struct carries 'Copy' if and only
\* if every one of its fields is duplicable under the final set (primitive
\* other than String, tuple of duplicables, immutable reference, or a
\* struct/enum named in the final set).
C1_TaggedIffAllFieldsDuplicable ==
    pc = "done" =>
        \A i \in 1..Len(declarations) :
            IsStruct(i) =>
                (Tagged(declarations[i]) <=> AllFieldsDuplicable(declarations[i], copyTypes))

\* C2: once the seed loop has run, and so before any struct is examined, an
\* enum is in the duplicable set exactly when none of its variants carries
\* data, whatever its derive list says.
C2_UnitEnumsSeeded ==
    pc # "seed" =>
        \A i \in 1..Len(declarations) :
            IsEnum(i) => (declarations[i].name \in copyTypes <=> UnitOnly(declarations[i]))

HasFieldOfStruct(d, n) ==
    \E k \in 1..Len(d.fields) : d.fields[k].type = structType(n)

MutuallyReferencing(i, j) ==
    /\ IsStruct(i) /\ IsStruct(j)
    /\ HasFieldOfStruct(declarations[i], declarations[j].name)
    /\ HasFieldOfStruct(declarations[j], declarations[i].name)

\* C3: two structs with a field of each other's type, and a struct with a
\* field of its own type, are never tagged duplicable, in any state of the
\* closure and for any order of the declarations.
C3_MutualNeverTagged ==
    \A i, j \in 1..Len(declarations) :
        MutuallyReferencing(i, j) =>
            /\ ~Tagged(declarations[i])
            /\ declarations[i].name \notin copyTypes

C3_Witness ==
    /\ pc = "done"
    /\ iteration >= 2
    /\ \E i, j \in 1..Len(declarations) : i # j /\ MutuallyReferencing(i, j)
    /\ \E i \in 1..Len(declarations) : IsStruct(i) /\ ~Tagged(declarations[i])

\* C4: a second run of optimizeDerives on the declarations the first run
\* left changes no derive list at any point, and ends with the same set of
\* duplicable names, also when the first run stopped at the pass limit.
C4_RerunChangesNothing ==
    run = 2 =>
        /\ declarations = firstDeclarations
        /\ (pc = "done" => copyTypes = firstCopyTypes)

\* the first run was cut off at the pass limit and left a struct untagged
\* whose fields are all duplicable; the second run has finished
C4_Witness ==
    /\ run = 2 /\ pc = "done"
    /\ iteration = maxIterations /\ changed
    /\ \E i \in 1..Len(declarations) :
        /\ IsStruct(i) /\ ~Tagged(declarations[i])
        /\ AllFieldsDuplicable(declarations[i], copyTypes)

\* C5: when optimizeDerives returns at the pass limit while its last pass
\* still tagged a struct, a diagnostic has been reported to the caller.
C5_DiagnosticAtPassLimit ==
    (pc = "done" /\ iteration = maxIterations /\ changed) => diagnostics # <<>>

(***************************************************************************)
(* Properties of the ownership analysis.  The counts below are taken from  *)
(* the text of the function body, independently of the walk.               *)
(***************************************************************************)
RECURSIVE Occurrences(_, _)
RECURSIVE OccurrencesIn(_, _, _)
\* identifier occurrences of n in the expression e
Occurrences(e, n) ==
    IF e.kind = "identifier" THEN (IF e.name = n THEN 1 ELSE 0)
    ELSE OccurrencesIn(e.args, 1, n)
OccurrencesIn(as, i, n) ==
    IF i > Len(as) THEN 0 ELSE Occurrences(as[i], n) + OccurrencesIn(as, i + 1, n)

RECURSIVE Root(_)
\* the variable an assignment target writes to (x for x, x[i] and x.f)
Root(e) ==
    IF e.kind = "identifier" THEN e.name
    ELSE IF e.kind \in {"index", "property"} THEN Root(e.args[1])
    ELSE ""

RECURSIVE DeclsIn(_, _, _)
RECURSIVE ReadsIn(_, _, _)
RECURSIVE AssignsIn(_, _, _)
RECURSIVE SumBlocks(_, _, _, _)
StmtCount(what, stmts, n) ==
    IF what = "decl" THEN DeclsIn(stmts, 1, n)
    ELSE IF what = "read" THEN ReadsIn(stmts, 1, n)
    ELSE AssignsIn(stmts, 1, n)
SumBlocks(what, blocks, b, n) ==
    IF b > Len(blocks) THEN 0
    ELSE StmtCount(what, blocks[b], n) + SumBlocks(what, blocks, b + 1, n)
\* variable statements that declare n, at any depth
DeclsIn(stmts, i, n) ==
    IF i > Len(stmts) THEN 0
    ELSE (IF stmts[i].kind = "variable" /\ stmts[i].name = n THEN 1 ELSE 0)
         + SumBlocks("decl", stmts[i].blocks, 1, n) + DeclsIn(stmts, i + 1, n)
\* occurrences of n in non-target expression position, at any depth
ReadsIn(stmts, i, n) ==
    IF i > Len(stmts) THEN 0
    ELSE (IF stmts[i].kind = "assignment"
          THEN Occurrences(stmts[i].exprs[1], n)
               - (IF Root(stmts[i].exprs[1]) = n THEN 1 ELSE 0)
               + Occurrences(stmts[i].exprs[2], n)
          ELSE OccurrencesIn(stmts[i].exprs, 1, n))
         + SumBlocks("read", stmts[i].blocks, 1, n) + ReadsIn(stmts, i + 1, n)
\* assignments that write to n, at any depth
AssignsIn(stmts, i, n) ==
    IF i > Len(stmts) THEN 0
    ELSE (IF stmts[i].kind = "assignment" /\ Root(stmts[i].exprs[1]) = n THEN 1 ELSE 0)
         + SumBlocks("assign", stmts[i].blocks, 1, n) + AssignsIn(stmts, i + 1, n)

Names == {"x", "y", "p", "v"}
Analyzed == apc = "analyzed"

\* C6: in the result of analyzeFunction a variable is in needsClone exactly
\* when its declared type is not trivially duplicable (under the set the
\* derive closure computed) and it is read more than once.
C6_NeedsCloneIffNotDuplicableReadTwice ==
    Analyzed =>
        \A n \in DOMAIN variables :
            n \in needsCloneSet <=>
                /\ ~Duplicable(variables[n].type, copyTypes)
                /\ ReadsIn(func.body, 1, n) > 1

\* C7: in the result of analyzeFunction a name is in canBorrow exactly when
\* it is declared exactly once in the body, read exactly once and never the
\* target of an assignment.
C7_CanBorrowIffDeclaredOnceReadOnce ==
    Analyzed =>
        \A n \in Names :
            n \in canBorrow <=>
                /\ DeclsIn(func.body, 1, n) = 1
                /\ ReadsIn(func.body, 1, n) = 1
                /\ AssignsIn(func.body, 1, n) = 0

\* C8: needsClone and canBorrow are disjoint, and both are subsets of the
\* keys of the variables map.
C8_SetsDisjointAndDeclared ==
    /\ needsCloneSet \cap canBorrow = {}
    /\ needsCloneSet \subseteq DOMAIN variables
    /\ canBorrow \subseteq DOMAIN variables

\* both sets are non-empty in the result of one analysis
C8_Witness ==
    /\ Analyzed
    /\ needsCloneSet # {}
    /\ canBorrow # {}

\* C9: a variable whose declared type is a struct or enum that the derive
\* closure tagged duplicable is never put in needsClone.
C9_TaggedTypesNeverNeedClone ==
    Analyzed =>
        \A n \in DOMAIN variables :
            (variables[n].type.kind \in {"struct", "enum"}
                /\ variables[n].type.name \in copyTypes)
            => n \notin needsCloneSet

(***************************************************************************)
(* Properties of the method dispatch.                                      *)
(***************************************************************************)
\* C10: when generateMethodCall has emitted a call with no namespace whose
\* receiver's resolved type is a text type (String or &str) and whose method
\* the text table knows, the rule it used is the text table's rule for the
\* method name, also for the names the sequence table has as well.
C10_TextReceiverUsesTextRule ==
    (/\ dpc = "generateMethodCall"
     /\ expr.namespace = ""
     /\ isStringType(expr.objectType)
     /\ expr.method \in stringBuiltins)
        => handler = getStringMethod(expr.method)

InBothTables(m) == m \in arrayBuiltins /\ m \in stringBuiltins

\* C11: for a receiver of statically known sequence (array) type and a method
\* name that both the sequence and the text table have, resolveMethodByType
\* returns the sequence table's rule and generateMethodCall emits the call
\* with the sequence table's rule, never with the text table's.
C11_ArrayReceiverUsesArrayRule ==
    (/\ expr.namespace = ""
     /\ isArrayType(expr.objectType)
     /\ InBothTables(expr.method))
        => /\ dpc = "generateMethodCall" => handler = rule("Array", expr.method)
           /\ dpc = "resolveMethodByType" => resolved = rule("Array", expr.method)

C11_Witness ==
    /\ dpc = "generateMethodCall"
    /\ expr.namespace = ""
    /\ expr.objectType = arrayType(primitiveType("String"))
    /\ expr.method = "includes"
    /\ handler.table = "Array"

RECURSIVE Nodes(_)
Nodes(e) == {e} \cup UNION {Nodes(e.args[i]) : i \in 1..Len(e.args)}

RECURSIVE NodesOf(_)
NodesOf(stmt) ==
    UNION ({Nodes(stmt.exprs[i]) : i \in 1..Len(stmt.exprs)}
           \cup UNION {{NodesOf(stmt.blocks[b][k]) : k \in 1..Len(stmt.blocks[b])} :
                       b \in 1..Len(stmt.blocks)})

BodyNodes ==
    UNION {UNION {NodesOf(irProgram.functions[f].body[k]) :
                  k \in 1..Len(irProgram.functions[f].body)} :
           f \in 1..Len(irProgram.functions)}

IsPlaceholder(n) == n.kind = "struct_literal" /\ n.name = "__anonymous__"

\* C13: once resolveTypes has returned, no struct literal of a function body
\* still carries the placeholder name
C13_NoPlaceholderAfterResolve ==
    rpc = "done" => \A n \in BodyNodes : ~IsPlaceholder(n)

IsEnumAccess(n) ==
    /\ n.kind = "property"
    /\ n.args[1].kind = "identifier"
    /\ n.args[1].name \in DOMAIN typeEnv.enums

\* C14: once resolveTypes has returned, no field access on an identifier
\* that names a registered enum remains anywhere in a function body
C14_NoEnumAccessAfterResolve ==
    rpc = "done" => \A n \in BodyNodes : ~IsEnumAccess(n)

(***************************************************************************)
(* Properties of statement and function generation.                        *)
(***************************************************************************)
\* the j-th smallest element of a set of numbers
Nth(S, j) == CHOOSE i \in S : Cardinality({x \in S : x < i}) = j - 1

\* the positions of the arm openings and arm closings of a match emitted at a level
ArmOpenings(ls, level) ==
    {i \in 1..Len(ls) : ls[i].indent = level + 1 /\ ls[i].form \in {"arm", "default_arm"}}
ArmClosings(ls, level) ==
    {i \in 1..Len(ls) : ls[i].indent = level + 1 /\ ls[i].form = "arm_close"}
ArmBody(ls, level, j) ==
    SubSeq(ls, Nth(ArmOpenings(ls, level), j) + 1, Nth(ArmClosings(ls, level), j) - 1)

\* the lines of the statements of one case body, none shared with another case
OwnLines(sw, j, level) == generateEach(sw.blocks[j], 1, level + 2, FALSE)

\* C15: the match emitted for a switch has one arm per case, in source
\* order, and the arm of a case holds the lines of that case's statements only
C15_OneArmPerCase ==
    \A k \in 1..Len(emitted) :
        genFunc.body[k].kind = "switch" =>
            LET sw == genFunc.body[k]
                ls == emitted[k]
            IN  /\ Cardinality(ArmOpenings(ls, 1)) = Len(sw.blocks)
                /\ Cardinality(ArmClosings(ls, 1)) = Len(sw.blocks)
                /\ \A j \in 1..Len(sw.blocks) :
                    LET opening == ls[Nth(ArmOpenings(ls, 1), j)]
                    IN  /\ IF sw.exprs[j + 1].kind = "none"
                           THEN opening.form = "default_arm"
                           ELSE opening.form = "arm" /\ opening.exprs = <<sw.exprs[j + 1]>>
                        /\ ArmBody(ls, 1, j) = OwnLines(sw, j, 1)

\* three cases, the first recorded as falling through, the others ended by break
C15_Witness ==
    /\ gpc = "done"
    /\ genFunc.body[1].kind = "switch"
    /\ genFunc.body[1].fallthrough = <<TRUE, FALSE, FALSE>>
    /\ \A j \in 1..3 : genFunc.body[1].blocks[j] = <<CallG>>
    /\ Cardinality(ArmOpenings(emitted[1], 1)) = 3

FinalStatement == genFunc.body[Len(genFunc.body)]
FinalLines == emitted[Len(genFunc.body)]
IsValueReturn(stmt) == stmt.kind = "return" /\ stmt.exprs[1].kind # "none"
NoTailLine == \A i \in 1..Len(output) : output[i].form # "tail"

\* a call of a builtin method that the registry flags as a statement: any
\* console method, and the mutating array methods, matched by method name
StatementOnlyCall(e) ==
    /\ e.kind = "method_call"
    /\ \/ e.namespace = "console" /\ e.name \in consoleBuiltins
       \/ e.namespace = "" /\ e.name \in {"push", "unshift", "reverse", "sort", "fill",
                                           "copyWithin", "forEach"}

\* C16 as claimed: in a non-void function a final value return or expression
\* statement is emitted bare; a void function emits nothing in that form
C16_FinalStatementBare ==
    gpc = "done" =>
        /\ (~isVoidType(genFunc.returnType)
            /\ (IsValueReturn(FinalStatement) \/ FinalStatement.kind = "expression"))
                => FinalLines = <<line("tail", 1, "", FinalStatement.exprs)>>
        /\ isVoidType(genFunc.returnType) => NoTailLine

\* C16 amended: the same, except that a final statement-only builtin call
\* keeps its terminator
C16_FinalStatementBareUnlessStatementCall ==
    gpc = "done" =>
        /\ (~isVoidType(genFunc.returnType)
            /\ \/ IsValueReturn(FinalStatement)
               \/ /\ FinalStatement.kind = "expression"
                  /\ ~StatementOnlyCall(FinalStatement.exprs[1]))
                => FinalLines = <<line("tail", 1, "", FinalStatement.exprs)>>
        /\ (~isVoidType(genFunc.returnType)
            /\ FinalStatement.kind = "expression"
            /\ StatementOnlyCall(FinalStatement.exprs[1]))
                => FinalLines = <<line("expr_stmt", 1, "", FinalStatement.exprs)>>
        /\ isVoidType(genFunc.returnType) => NoTailLine

C16_Witness ==
    /\ gpc = "done"
    /\ ~isVoidType(genFunc.returnType)
    /\ Len(genFunc.body) = 2
    /\ FinalStatement = ReturnX
    /\ FinalLines = <<line("tail", 1, "", <<identifier("x")>>)>>

(***************************************************************************)
(* Properties of the emitted sections.                                     *)
(***************************************************************************)
KindRank(k) ==
    CASE k = "struct" -> 1 [] k = "enum" -> 2 [] k = "type_alias" -> 3
      [] k = "impl" -> 4 [] k = "function" -> 5 [] OTHER -> 6

\* the positions in the output at which the text of declaration i stands
SectionsOf(i) ==
    {p \in 1..Len(sections) : sections[p] = generateDeclaration(declarations[i])}

\* C17: in the returned text the declarations stand by kind (structs, enums,
\* type aliases, impl blocks, functions), in source order within a kind, each once
C17_SectionsByKindInSourceOrder ==
    epc = "done" =>
        /\ Len(sections) = Len(declarations) + 1
        /\ \A i \in 1..Len(declarations) : Cardinality(SectionsOf(i)) = 1
        /\ \A i, j \in 1..Len(declarations) :
            (\/ KindRank(declarations[i].kind) < KindRank(declarations[j].kind)
             \/ declarations[i].kind = declarations[j].kind /\ i < j)
                => \A p \in SectionsOf(i), q \in SectionsOf(j) : p < q

\* a function, an enum and two structs, listed in that order
C17_Witness ==
    /\ epc = "done"
    /\ Len(declarations) = 4
    /\ declarations[1].kind = "function"
    /\ declarations[2].kind = "enum"
    /\ declarations[3].name = "A"
    /\ declarations[4].name = "B"
    /\ sections[1].name = "A"
    /\ sections[2].name = "B"
    /\ sections[3].kind = "enum"
    /\ sections[4].kind = "function"

\* C18: every named type a section mentions is declared by that section or
\* by an earlier one
C18_DeclaredBeforeUse ==
    epc = "done" =>
        \A p \in 1..Len(sections) :
            \A k \in 1..Len(sections[p].refers) :
                \E q \in 1..p :
                    /\ sections[q].kind \in {"struct", "enum", "type_alias"}
                    /\ sections[q].name = sections[p].refers[k]

(***************************************************************************)
(* Properties of the type registries.                                      *)
(***************************************************************************)
RegistryOf(r) == IF r = 1 THEN globalTypeRegistry ELSE createdRegistries[r - 1]

\* what a registry answers, as three sets of names
Visible(r) ==
    [structs |-> {n \in TypeNames : isStruct(setHeap, RegistryOf(r), n)},
     enums |-> {n \in TypeNames : isEnum(setHeap, RegistryOf(r), n)},
     typeAliases |-> {n \in TypeNames : hasTypeAlias(setHeap, RegistryOf(r), n)}]

\* C19: every registry knows exactly the names registered in it: the global
\* one those of the units parsed with it since its last reset, a created
\* one those of the units parsed with it
C19_RegistriesIsolated ==
    \A r \in 1..Len(registeredIn) : Visible(r) = registeredIn[r]

\* the global registry was filled and reset, and a created registry holds
\* names the global one does not know
C19_Witness ==
    /\ resets = 1
    /\ Len(createdRegistries) = 2
    /\ Visible(1) = noNames
    /\ Visible(2).structs = {"P", "Q"}
    /\ Visible(3) = noNames
    /\ Len(setHeap) = 12

(***************************************************************************)
(* Termination of optimizeDerives.                                         *)
(***************************************************************************)
\* the structs tagged so far in this call
TaggedStructs ==
    Cardinality({i \in 1..Len(declarations) :
        declarations[i].kind = "struct" /\ declarations[i].name \in copyTypes})

\* steps one pass takes: its head, one per declaration, its end
PassSteps == Len(declarations) + 2

\* steps one call can still take
CallRank ==
    CASE pc = "seed" -> (maxIterations + 1) * PassSteps + 2
      [] pc = "while" -> (maxIterations - iteration) * PassSteps + 1
      [] pc = "for" -> (maxIterations - iteration) * PassSteps
                          + (Len(declarations) + 1 - idx) + 2
      [] OTHER -> 0

\* steps the two calls can still take
Rank == (2 - run) * ((maxIterations + 1) * PassSteps + 3) + CallRank

TypeOKRank == Rank \in Nat

\* at most maxIterations passes are begun, and every pass that was followed
\* by another, or that set changed, tagged a struct of its own
PassesBounded ==
    pc # "seed" =>
        /\ iteration <= maxIterations
        /\ TaggedStructs >= (IF changed THEN iteration ELSE iteration - 1)

\* C20: optimizeDerives terminates (every step lowers a natural-number
\* rank), begins at most 10 passes, and every pass except possibly the last
\* tags at least one new struct
C20_TerminatesWithinCap ==
    /\ []PassesBounded
    /\ []TypeOKRank
    /\ [][Rank' < Rank]_vars

\* the cap ends the loop: ten passes each tagged a struct and changed is
\* still set
C20_Witness ==
    /\ pc = "done"
    /\ run = 1
    /\ iteration = maxIterations
    /\ changed
    /\ TaggedStructs = maxIterations
    /\ Len(declarations) > maxIterations

(***************************************************************************)
(* Structs of primitive fields.                                            *)
(***************************************************************************)
PrimitiveOnly(d) == \A k \in 1..Len(d.fields) : d.fields[k].type.kind = "primitive"
HasStringField(d) == \E k \in 1..Len(d.fields) : d.fields[k].type = primitiveType("String")

\* the first pass of this call has gone past declaration i
ExaminedInFirstPass(i) ==
    /\ pc # "seed"
    /\ iteration >= 1
    /\ (iteration = 1 /\ pc = "for") => idx > i

\* C21: a struct of primitive fields only is never tagged when one of them is
\* String; otherwise it is untagged until the first pass examines it and tagged
\* from then on, at whatever position it stands
C21_PrimitiveStructTaggedInFirstPass ==
    \A i \in 1..Len(declarations) :
        (IsStruct(i) /\ PrimitiveOnly(declarations[i])) =>
            IF HasStringField(declarations[i])
            THEN ~Tagged(declarations[i]) /\ declarations[i].name \notin copyTypes
            ELSE /\ ExaminedInFirstPass(i) =>
                        Tagged(declarations[i]) /\ declarations[i].name \in copyTypes
                 /\ (run = 1 /\ ~ExaminedInFirstPass(i)) => ~Tagged(declarations[i])

\* the first pass has just ended: a struct of two i32 fields standing last is
\* tagged, a struct of one String field is not
C21_Witness ==
    /\ run = 1 /\ iteration = 1 /\ pc = "while"
    /\ Len(declarations) = 3
    /\ IsStruct(3) /\ Len(declarations[3].fields) = 2
    /\ PrimitiveOnly(declarations[3]) /\ ~HasStringField(declarations[3])
    /\ Tagged(declarations[3])
    /\ \E i \in 1..2 : IsStruct(i) /\ HasStringField(declarations[i]) /\ ~Tagged(declarations[i])

(***************************************************************************)
(* What a pass may tag.                                                    *)
(***************************************************************************)
\* C22: a step adds a struct to the duplicable set only if each of its fields
\* is, under the set before the step, a primitive other than String, a
\* duplicable tuple, an immutable reference or an already tagged enum or
\* struct; so no struct with a field of mutable-reference type is added
C22_TaggedOnlyIfFieldsDuplicable ==
    [][\A i \in 1..Len(declarations) :
          (IsStruct(i) /\ declarations[i].name \notin copyTypes
                       /\ declarations[i].name \in copyTypes') =>
              AllFieldsDuplicable(declarations[i], copyTypes)]_vars

(***************************************************************************)
(* Placeholder struct names in the generated text.                         *)
(***************************************************************************)
\* the tokens of the expressions an emitted line is filled with
TextOf(l) == joinExpressions(l.exprs, 1)

MentionsPlaceholder(l) ==
    \E k \in 1..Len(TextOf(l)) : TextOf(l)[k] = [conv |-> "", text |-> "__anonymous__"]

\* C23: the generator returns no text in which the placeholder name
\* '__anonymous__' stands as a type name: no line it has emitted for a
\* function holds the placeholder
C23_NoPlaceholderInOutput ==
    \A i \in 1..Len(output) : ~MentionsPlaceholder(output[i])

(***************************************************************************)
(* Scopes of the type resolver.                                            *)
(***************************************************************************)
\* the body of the function under resolution
ResolvedBody == irProgram.functions[1].body

\* the name is a parameter of the function, or a statement of the body itself
\* declares it before position j
VisibleAt(n, j) ==
    \/ \E k \in 1..Len(irProgram.functions[1].params) :
            irProgram.functions[1].params[k].name = n
    \/ \E k \in 1..(j - 1) : ResolvedBody[k].kind = "variable" /\ ResolvedBody[k].name = n

\* C24: an identifier in an expression statement of the function body gets
\* no resolved type when its name is neither a parameter nor declared by an
\* earlier statement of the body itself, whatever earlier nested blocks (a
\* bare block, an if branch, a loop body, a for-each variable, a switch
\* case) declare
C24_BlockScopesEnd ==
    \A j \in 1..Len(ResolvedBody) :
        (rpc \in {"body", "functions", "done"} /\ (rpc = "body" => j < bodyPos)
         /\ ResolvedBody[j].kind = "expression") =>
            \A n \in NodesOf(ResolvedBody[j]) :
                (n.kind = "identifier" /\ ~VisibleAt(n.name, j)) =>
                    n.resolvedType = undefined

(***************************************************************************)
(* The usage counters.                                                     *)
(***************************************************************************)
\* C25: in the result of analyzeFunction the read counter of a declared
\* variable is the number of occurrences of its identifier in non-target
\* position, and its write counter the number of its declarations plus the
\* number of assignments that write to it, an assignment through an index or
\* a field of the variable counting as a write and not as a read
C25_CountersMatchOccurrences ==
    Analyzed =>
        \A n \in DOMAIN variables :
            /\ variables[n].reads = ReadsIn(func.body, 1, n)
            /\ variables[n].writes = DeclsIn(func.body, 1, n) + AssignsIn(func.body, 1, n)

(***************************************************************************)
(* The closure only grows.                                                 *)
(***************************************************************************)
\* what a step may do to one declaration
DeclarationKept(old, new) ==
    /\ new.kind = old.kind /\ new.name = old.name
    /\ new.fields = old.fields /\ new.variants = old.variants
    /\ old.kind # "struct" => new = old
    /\ \/ new.derives = old.derives
       \/ ~Includes(old.derives, "Copy") /\ new.derives = Append(old.derives, "Copy")

\* C26: within a call of optimizeDerives no name leaves the duplicable set;
\* and no step removes or reorders an entry of a derive list, adds anything
\* but one 'Copy' at the end of a struct's list that has none, or changes an
\* enum declaration or a struct's fields
C26_ClosureOnlyGrows ==
    [][/\ pc # "done" => copyTypes \subseteq copyTypes'
       /\ Len(declarations') = Len(declarations)
       /\ \A i \in 1..Len(declarations) :
              DeclarationKept(declarations[i], declarations'[i])]_vars

\* two passes tagged a struct each and a second call has run over the
\* tagged declarations
C26_Witness ==
    /\ run = 2 /\ pc = "done"
    /\ firstCopyTypes = copyTypes
    /\ Cardinality({i \in 1..Len(declarations) :
            IsStruct(i) /\ declarations[i].derives = Append(structDerives, "Copy")}) >= 2
    /\ \E i \in 1..Len(declarations) : IsEnum(i)

(***************************************************************************)
(* Independence of the declaration order.                                  *)
(***************************************************************************)
RECURSIVE PassOver(_, _, _)
\* the duplicable set after one pass over decls from position i on
PassOver(decls, i, copy) ==
    IF i > Len(decls) THEN copy
    ELSE PassOver(decls, i + 1,
            IF decls[i].kind = "struct" /\ decls[i].name \notin copy /\ allCopy(decls[i], copy)
            THEN copy \cup {decls[i].name} ELSE copy)

RECURSIVE RunPasses(_, _, _)
\* the set the while loop ends with, entered after `passes` passes
RunPasses(decls, copy, passes) ==
    IF passes >= maxIterations \/ PassOver(decls, 1, copy) = copy
    THEN PassOver(decls, 1, copy)
    ELSE RunPasses(decls, PassOver(decls, 1, copy), passes + 1)

\* the structs optimizeDerives tags in the list decls
TaggedBy(decls) ==
    {n \in RunPasses(decls, seedCopyTypes(decls), 1) :
        \E i \in 1..Len(decls) : decls[i].kind = "struct" /\ decls[i].name = n}

Reversed(decls) == [i \in 1..Len(decls) |-> decls[Len(decls) + 1 - i]]
Rotated(decls) == [i \in 1..Len(decls) |-> decls[(i % Len(decls)) + 1]]

\* C27: the structs a call has tagged when it returns are those it tags in
\* the same declarations listed in reverse and listed rotated by one
C27_OrderIndependent ==
    (pc = "done" /\ run = 1) =>
        LET tagged == {declarations[i].name : i \in {j \in 1..Len(declarations) :
                            IsStruct(j) /\ Tagged(declarations[j])}}
        IN  /\ tagged = TaggedBy(declarations)
            /\ tagged = TaggedBy(Reversed(declarations))
            /\ tagged = TaggedBy(Rotated(declarations))

(***************************************************************************)
(* Breaks of switch cases.                                                 *)
(***************************************************************************)
\* the function body is one switch statement: every break in it belongs to
\* that switch
BodyIsSwitch == Len(genFunc.body) = 1 /\ genFunc.body[1].kind = "switch"

\* C28: no line `break;` is emitted for a switch, also when a case body holds
\* its break inside an if rather than as its last statement
C28_NoBreakInMatch ==
    BodyIsSwitch => \A i \in 1..Len(output) : output[i].form # "break"

(***************************************************************************)
(* The catch-all arm.                                                      *)
(***************************************************************************)
\* the positions of the catch-all arms of the match emitted for the body
CatchAlls ==
    {i \in 1..Len(output) : output[i].indent = 2 /\ output[i].form \in {"default_arm", "catch_all"}}

HasDefault(stmt) == \E c \in 1..Len(stmt.blocks) : stmt.exprs[c + 1].kind = "none"

\* C29: the match emitted for a switch has exactly one catch-all arm, no
\* value arm follows it, and it is the added `_ => {}` exactly when the
\* switch has no default case
C29_OneCatchAllLast ==
    (BodyIsSwitch /\ gpc = "done") =>
        /\ Cardinality(CatchAlls) = 1
        /\ \A i \in CatchAlls :
            /\ \A j \in (i + 1)..Len(output) :
                    ~(output[j].indent = 2 /\ output[j].form = "arm")
            /\ output[i].form = "catch_all" <=> ~HasDefault(genFunc.body[1])

====
